---- MODULE Spec2Model ----
(***************************************************************************)
(* Run lifecycle of the digitalhub SDK: Run.build, Run.run and Run.wait of *)
(* digitalhub/entities/run/_base/entity.py, executed by one single-        *)
(* threaded client against a backend record that the remote engine of a    *)
(* non-local-execution Run updates asynchronously.  Every client operation *)
(* is cut at its backend requests and at the engine call, so the updater   *)
(* can interleave exactly where it can in the program.                     *)
(***************************************************************************)
EXTENDS Naturals, Sequences, FiniteSets, TLC

VARIABLES
    status,     \* self.status of the in-memory Run
    spec,       \* self.spec of the in-memory Run
    backend,    \* the Run record persisted in the backend: [status, spec]
    pc,         \* position of the client inside the current operation
    exc,        \* exception caught by run()'s except clause (text), or None
    ret,        \* status dict returned by Runtime.run, or None
    result,     \* how the last finished operation ended
    prior,      \* in-memory state when the current operation was called
    trace,      \* backend requests and engine calls of the current operation
    polls,      \* refreshes made by the current wait()
    slept,      \* time units the current wait() has slept
    seen,       \* states read by the refreshes of the current wait()
    lastUpdate, \* last state written by the engine's updater, or None
    signals,    \* requests the current operation sent to the processor
    input,      \* arguments of the function under study, when one is
    output      \* what that function returned or raised

vars == <<status, spec, backend, pc, exc, ret, result, prior, trace, polls, slept,
          seen, lastUpdate, signals, input, output>>

\* The variables of the Run and its backend.
runvars == <<status, spec, backend, pc, exc, ret, result, prior, trace, polls, slept,
             seen, lastUpdate, signals>>

None == "None"

\* Bounds of the model.
MaxPolls == 3

\* State members used by the Run state machine (State.X.value).
CREATED == "CREATED"
BUILT == "BUILT"
RUNNING == "RUNNING"
COMPLETED == "COMPLETED"
ERROR == "ERROR"
STOPPED == "STOPPED"

States == {CREATED, BUILT, RUNNING, COMPLETED, ERROR, STOPPED}

\* States the remote engine reports for a Run it orchestrates.
EngineStates == {RUNNING, COMPLETED, ERROR, STOPPED}

\* Texts of the exceptions Runtime.run can raise (str(e)).
ExcTexts == {"engine failed", "out of memory"}

\* Values of the fields of a status besides state.
Messages == {None} \cup ExcTexts
Outputs == {None, "o1"}

\* Spec dicts computed by Runtime.build, identified by a tag.
InitialSpec == "s0"
BuildPatches == {"s1"}

StatusKeys == {"state", "message", "outputs"}

\* Status dicts Runtime.run can return: a state, outputs, both or neither.
\* The state is any member of the enumeration or a string that is none.
PatchKeys == {"state", "outputs"}

UnknownState == "FINISHED"

PatchValues(k) ==
    IF k = "state" THEN States \cup {UnknownState} ELSE {"o1"}

EnginePatches ==
    UNION { { f \in [D -> States \cup {UnknownState, "o1"}] :
                \A k \in D : f[k] \in PatchValues(k) } : D \in SUBSET PatchKeys }

NoPatch == [x \in {} |-> None]

\* Variant of _is_ready_to_run that forgets to exclude a fresh Run.
ReadyAlsoFromCreated(st) == st.state \in {CREATED, BUILT, STOPPED}

\* Run._is_ready_to_run
_is_ready_to_run(st) == (st.state = BUILT) \/ (st.state = STOPPED)

\* Run._set_state
_set_state(st, s) == [st EXCEPT !.state = s]

\* Run._set_message
_set_message(st, m) == [st EXCEPT !.message = m]

\* dict.pop("state", None) on the engine's status
PopState(p) == [k \in (DOMAIN p) \ {"state"} |-> p[k]]

\* Variant of MergeStatus in which a field the Run already has wins.
MergeStatusKeepsOld(st, p) ==
    [k \in StatusKeys |->
        IF st[k] = None /\ k \in DOMAIN p THEN p[k] ELSE st[k]]

\* {**self.status.to_dict(), **status}
MergeStatus(st, p) ==
    [k \in StatusKeys |-> IF k \in DOMAIN p THEN p[k] ELSE st[k]]

\* StatusBuilder._parse_arguments: state None defaults to CREATED
_parse_arguments(d) ==
    IF d.state = None THEN [d EXCEPT !.state = CREATED] ELSE d

\* Run._set_status: build_status(self.kind, **status)
_set_status(d) == _parse_arguments(d)

\* build_status refuses a state that is not in the enumeration (ValueError)
StatusRejected(d) == d.state # None /\ d.state \notin States

\* entity.refresh(): the in-memory spec and status become the backend's
RefreshedStatus == backend.status
RefreshedSpec == backend.spec

\* entity.save(): the backend record becomes the Run's to_dict()
Saved(st, sp) == [status |-> st, spec |-> sp]

Event(e, s) == [ev |-> e, st |-> s]

Finished(op, outcome, text) ==
    [op |-> op, outcome |-> outcome, exc |-> text, value |-> None]

\* No function is under study while the Run operations execute.
NoInput == [fn |-> None]
NoOutput == [outcome |-> "pending"]

RunInit ==
    /\ status = [state |-> CREATED, message |-> None, outputs |-> None]
    /\ spec \in [local_execution : BOOLEAN, tag : {InitialSpec}]
    /\ backend = Saved(status, spec)
    /\ pc = "idle"
    /\ exc = None
    /\ ret = NoPatch
    /\ result = Finished("new", "ok", None)
    /\ prior = CREATED
    /\ trace = <<>>
    /\ polls = 0
    /\ slept = 0
    /\ seen = <<>>
    /\ lastUpdate = None
    /\ signals = <<>>

Init ==
    /\ RunInit
    /\ input = NoInput
    /\ output = NoOutput

\* The fields every operation resets when it is called.
Entered ==
    /\ prior' = status.state
    /\ exc' = None
    /\ ret' = NoPatch
    /\ polls' = 0
    /\ slept' = 0
    /\ seen' = <<>>
    /\ UNCHANGED <<input, output>>

\* An operation that sends no control request to the processor is called.
Called ==
    /\ Entered
    /\ signals' = <<>>

\* The operation goes on to its next step.
Goto(op, next) ==
    /\ pc' = next
    /\ result' = Finished(op, "pending", None)

\* An exception leaves the operation.
Raise(op, outcome, text) ==
    /\ pc' = "idle"
    /\ result' = Finished(op, outcome, text)

\* The operation returns normally.
Return(op) ==
    /\ pc' = "idle"
    /\ result' = Finished(op, "ok", None)

(***************************************************************************)
(* Run.run                                                                 *)
(***************************************************************************)

\* line 79, the refresh request fails: the transport error leaves run()
RunRefreshFail ==
    /\ pc = "idle"
    /\ Called
    /\ trace' = <<Event("refresh failed", None)>>
    /\ Raise("run", "TransportError", None)
    /\ UNCHANGED <<status, spec, backend, lastUpdate>>

\* Variant of RunNotReady that sets RUNNING before testing readiness.
RunNotReadySetsFirst ==
    /\ pc = "idle"
    /\ RefreshedSpec.local_execution
    /\ ~ _is_ready_to_run(RefreshedStatus)
    /\ Called
    /\ status' = _set_state(RefreshedStatus, RUNNING)
    /\ spec' = RefreshedSpec
    /\ trace' = <<Event("refresh", RefreshedStatus.state)>>
    /\ Raise("run", "EntityError", "Run is not in a state to run.")
    /\ UNCHANGED <<backend, lastUpdate>>

\* lines 79-82, local execution and not ready: EntityError
RunNotReady ==
    /\ pc = "idle"
    /\ RefreshedSpec.local_execution
    /\ ~ _is_ready_to_run(RefreshedStatus)
    /\ Called
    /\ status' = RefreshedStatus
    /\ spec' = RefreshedSpec
    /\ trace' = <<Event("refresh", RefreshedStatus.state)>>
    /\ Raise("run", "EntityError", "Run is not in a state to run.")
    /\ UNCHANGED <<backend, lastUpdate>>

\* Variant of RunSetRunning that leaves the save for after the engine call.
RunSetRunningNoSave ==
    /\ pc = "idle"
    /\ RefreshedSpec.local_execution
    /\ _is_ready_to_run(RefreshedStatus)
    /\ Called
    /\ status' = _set_state(RefreshedStatus, RUNNING)
    /\ spec' = RefreshedSpec
    /\ trace' = <<Event("refresh", RefreshedStatus.state)>>
    /\ Goto("run", "run_engine")
    /\ UNCHANGED <<backend, lastUpdate>>

\* Variant of RunSetRunning that tests the state held before the refresh.
RunSetRunningOnMemory ==
    /\ pc = "idle"
    /\ RefreshedSpec.local_execution
    /\ _is_ready_to_run(status)
    /\ Called
    /\ status' = _set_state(RefreshedStatus, RUNNING)
    /\ spec' = RefreshedSpec
    /\ trace' = <<Event("refresh", RefreshedStatus.state)>>
    /\ Goto("run", "run_save")
    /\ UNCHANGED <<backend, lastUpdate>>

\* lines 79-83, local execution and ready: state set to RUNNING in memory
RunSetRunning ==
    /\ pc = "idle"
    /\ RefreshedSpec.local_execution
    /\ _is_ready_to_run(RefreshedStatus)
    /\ Called
    /\ status' = _set_state(RefreshedStatus, RUNNING)
    /\ spec' = RefreshedSpec
    /\ trace' = <<Event("refresh", RefreshedStatus.state)>>
    /\ Goto("run", "run_save")
    /\ UNCHANGED <<backend, lastUpdate>>

\* lines 79-80 and 86, not local execution: straight to the engine call
RunRemote ==
    /\ pc = "idle"
    /\ ~ RefreshedSpec.local_execution
    /\ Called
    /\ status' = RefreshedStatus
    /\ spec' = RefreshedSpec
    /\ trace' = <<Event("refresh", RefreshedStatus.state)>>
    /\ Goto("run", "run_engine")
    /\ UNCHANGED <<backend, lastUpdate>>

\* line 84, self.save(update=True) carrying RUNNING; line 86 does nothing
RunSaveRunning ==
    /\ pc = "run_save"
    /\ backend' = Saved(status, spec)
    /\ trace' = Append(trace, Event("save", status.state))
    /\ Goto("run", "run_engine")
    /\ UNCHANGED <<status, spec, exc, ret, prior, polls, slept, seen, lastUpdate, signals,
                   input, output>>

\* line 84, the save request fails: run() ends before the try block
RunSaveRunningFail ==
    /\ pc = "run_save"
    /\ trace' = Append(trace, Event("save failed", status.state))
    /\ Raise("run", "TransportError", None)
    /\ UNCHANGED <<status, spec, backend, exc, ret, prior, polls, slept, seen,
                   lastUpdate, signals,
                   input, output>>

\* line 86, self._setup_execution() raises (RunDbtRun: its refresh or the
\* resolution of the inputs): the call is made before the try block, so the
\* error leaves run() at once
RunSetupFail ==
    /\ pc = "run_engine"
    /\ trace' = Append(trace, Event("setup failed", status.state))
    /\ Raise("run", "SetupError", None)
    /\ UNCHANGED <<status, spec, backend, exc, ret, prior, polls, slept, seen,
                   lastUpdate, signals,
                   input, output>>

\* The text of the error of build_runtime for a kind that has no Runtime.
NoRuntime == "no runtime"

\* Variant of RunRuntimeFail in which the lookup is made before the try
\* block: its error leaves run() at once.
RunRuntimeFailOutsideTry ==
    /\ pc = "run_engine"
    /\ exc' = NoRuntime
    /\ trace' = Append(trace, Event("runtime failed", status.state))
    /\ Raise("run", "EngineError", NoRuntime)
    /\ UNCHANGED <<status, spec, backend, ret, prior, polls, slept, seen,
                   lastUpdate, signals,
                   input, output>>

\* lines 88-90, self._get_runtime() raises inside the try block: the
\* except clause takes its error as it takes one of Runtime.run
RunRuntimeFail ==
    /\ pc = "run_engine"
    /\ exc' = NoRuntime
    /\ trace' = Append(trace, Event("runtime failed", status.state))
    /\ Goto("run", "err_refresh")
    /\ UNCHANGED <<status, spec, backend, ret, prior, polls, slept, seen,
                   lastUpdate, signals,
                   input, output>>

\* line 89, Runtime.run is invoked with self.to_dict()
RunEngineCall ==
    /\ pc = "run_engine"
    /\ trace' = Append(trace, Event("engine", status.state))
    /\ Goto("run", "in_engine")
    /\ UNCHANGED <<status, spec, backend, exc, ret, prior, polls, slept, seen,
                   lastUpdate, signals,
                   input, output>>

\* line 89, Runtime.run returns a status dict
RunEngineReturn ==
    /\ pc = "in_engine"
    /\ \E p \in EnginePatches : ret' = p
    /\ Goto("run", "ok_refresh")
    /\ UNCHANGED <<status, spec, backend, exc, prior, trace, polls, slept, seen,
                   lastUpdate, signals,
                   input, output>>

\* lines 89-90, Runtime.run raises
RunEngineRaise ==
    /\ pc = "in_engine"
    /\ \E e \in ExcTexts : exc' = e
    /\ Goto("run", "err_refresh")
    /\ UNCHANGED <<status, spec, backend, ret, prior, trace, polls, slept, seen,
                   lastUpdate, signals,
                   input, output>>

\* Variant of ErrorStatus that sets the state but loses the exception text.
ErrorStatusNoMessage(st, sp, e) ==
    IF sp.local_execution THEN _set_state(st, ERROR) ELSE st

\* Variant of ErrorStatus that sets ERROR whether or not the Run is local.
ErrorStatusForcesError(st, sp, e) == _set_message(_set_state(st, ERROR), e)

\* lines 91-94 as a function of the refreshed Run and the exception
ErrorStatus(st, sp, e) ==
    _set_message(IF sp.local_execution THEN _set_state(st, ERROR) ELSE st, e)

\* lines 91-94: refresh, state ERROR if local execution, message str(e)
RunErrRefresh ==
    /\ pc = "err_refresh"
    /\ status' = ErrorStatus(RefreshedStatus, RefreshedSpec, exc)
    /\ spec' = RefreshedSpec
    /\ trace' = Append(trace, Event("refresh", RefreshedStatus.state))
    /\ Goto("run", "err_save")
    /\ UNCHANGED <<backend, exc, ret, prior, polls, slept, seen, lastUpdate, signals,
                   input, output>>

\* line 91, the refresh in the except clause fails
RunErrRefreshFail ==
    /\ pc = "err_refresh"
    /\ trace' = Append(trace, Event("refresh failed", None))
    /\ Raise("run", "TransportError", None)
    /\ UNCHANGED <<status, spec, backend, exc, ret, prior, polls, slept, seen,
                   lastUpdate, signals,
                   input, output>>

\* lines 95-96: save, then the engine's exception is raised again
RunErrSave ==
    /\ pc = "err_save"
    /\ backend' = Saved(status, spec)
    /\ trace' = Append(trace, Event("save", status.state))
    /\ Raise("run", "EngineError", exc)
    /\ UNCHANGED <<status, spec, exc, ret, prior, polls, slept, seen, lastUpdate, signals,
                   input, output>>

\* Variant of RunErrSaveFail that gets ERROR persisted all the same and
\* raises the engine's exception.
RunErrSaveFailPersists ==
    /\ pc = "err_save"
    /\ backend' = Saved(status, spec)
    /\ trace' = Append(trace, Event("save failed", status.state))
    /\ Raise("run", "EngineError", exc)
    /\ UNCHANGED <<status, spec, exc, ret, prior, polls, slept, seen,
                   lastUpdate, signals,
                   input, output>>

\* line 95, the save in the except clause fails
RunErrSaveFail ==
    /\ pc = "err_save"
    /\ trace' = Append(trace, Event("save failed", status.state))
    /\ Raise("run", "TransportError", None)
    /\ UNCHANGED <<status, spec, backend, exc, ret, prior, polls, slept, seen,
                   lastUpdate, signals,
                   input, output>>

\* Variant of MergedStatus that drops the engine's state for every Run.
MergedStatusAlwaysPops(st, sp, p) == MergeStatus(st, PopState(p))

\* Variant of MergedStatus that keeps the engine's state for every Run.
MergedStatusNeverPops(st, sp, p) == MergeStatus(st, p)

\* lines 99-101 as a function of the refreshed Run and the engine's status
MergedStatus(st, sp, p) ==
    MergeStatus(st, IF ~ sp.local_execution THEN PopState(p) ELSE p)

\* Variant of RunOkRefresh that merges into the status read before the
\* engine call, without the second refresh.
RunOkNoRefresh ==
    /\ pc = "ok_refresh"
    /\ status' = _set_status(MergedStatus(status, spec, ret))
    /\ Goto("run", "ok_save")
    /\ UNCHANGED <<spec, backend, exc, ret, prior, trace, polls, slept, seen,
                   lastUpdate, signals,
                   input, output>>

\* lines 98-102: refresh, drop state if not local, merge, rebuild status
RunOkRefresh ==
    /\ pc = "ok_refresh"
    /\ ~ StatusRejected(MergedStatus(RefreshedStatus, RefreshedSpec, ret))
    /\ status' = _set_status(MergedStatus(RefreshedStatus, RefreshedSpec, ret))
    /\ spec' = RefreshedSpec
    /\ trace' = Append(trace, Event("refresh", RefreshedStatus.state))
    /\ Goto("run", "ok_save")
    /\ UNCHANGED <<backend, exc, ret, prior, polls, slept, seen, lastUpdate, signals,
                   input, output>>

\* lines 98-102: the merged state is refused by build_status; the Run keeps
\* the refreshed status and the ValueError leaves run() before the save
RunOkInvalidState ==
    /\ pc = "ok_refresh"
    /\ StatusRejected(MergedStatus(RefreshedStatus, RefreshedSpec, ret))
    /\ status' = RefreshedStatus
    /\ spec' = RefreshedSpec
    /\ trace' = Append(trace, Event("refresh", RefreshedStatus.state))
    /\ Raise("run", "ValueError", "Invalid state")
    /\ UNCHANGED <<backend, exc, ret, prior, polls, slept, seen, lastUpdate, signals,
                   input, output>>

\* line 98, the refresh after the engine call fails
RunOkRefreshFail ==
    /\ pc = "ok_refresh"
    /\ trace' = Append(trace, Event("refresh failed", None))
    /\ Raise("run", "TransportError", None)
    /\ UNCHANGED <<status, spec, backend, exc, ret, prior, polls, slept, seen,
                   lastUpdate, signals,
                   input, output>>

\* lines 103-104: save and return self
RunOkSave ==
    /\ pc = "ok_save"
    /\ backend' = Saved(status, spec)
    /\ trace' = Append(trace, Event("save", status.state))
    /\ Return("run")
    /\ UNCHANGED <<status, spec, exc, ret, prior, polls, slept, seen, lastUpdate, signals,
                   input, output>>

\* line 103, the final save fails
RunOkSaveFail ==
    /\ pc = "ok_save"
    /\ trace' = Append(trace, Event("save failed", status.state))
    /\ Raise("run", "TransportError", None)
    /\ UNCHANGED <<status, spec, backend, exc, ret, prior, polls, slept, seen,
                   lastUpdate, signals,
                   input, output>>

Run ==
    \/ RunRefreshFail \/ RunNotReady \/ RunSetRunning \/ RunRemote
    \/ RunSaveRunning \/ RunSaveRunningFail
    \/ RunSetupFail
    \/ RunRuntimeFail \/ RunEngineCall \/ RunEngineReturn \/ RunEngineRaise
    \/ RunErrRefresh \/ RunErrRefreshFail \/ RunErrSave \/ RunErrSaveFail
    \/ RunOkRefresh \/ RunOkInvalidState \/ RunOkRefreshFail
    \/ RunOkSave \/ RunOkSaveFail

(***************************************************************************)
(* The remote engine's updater: writes the state of a Run that is not      *)
(* executed locally, at any moment.                                        *)
(***************************************************************************)
BackendUpdate ==
    /\ ~ backend.spec.local_execution
    /\ \E s \in EngineStates \ {backend.status.state} :
          /\ backend' = [backend EXCEPT !.status.state = s]
          /\ lastUpdate' = s
    /\ UNCHANGED <<status, spec, pc, exc, ret, result, prior, trace, polls, slept,
                   seen, signals,
                   input, output>>

(***************************************************************************)
(* Run.build                                                               *)
(***************************************************************************)

\* line 60, _get_executable: the executable cannot be read
BuildExecutableFail ==
    /\ pc = "idle"
    /\ Called
    /\ trace' = <<Event("executable failed", None)>>
    /\ Raise("build", "LookupError", None)
    /\ UNCHANGED <<status, spec, backend, lastUpdate>>

\* Variant of BuildTaskFail that has set BUILT by the time the lookup fails.
BuildTaskFailSetsBuilt ==
    /\ pc = "idle"
    /\ Called
    /\ status' = _set_state(status, BUILT)
    /\ trace' = <<Event("executable", None), Event("task failed", None)>>
    /\ Raise("build", "LookupError", None)
    /\ UNCHANGED <<spec, backend, lastUpdate>>

\* lines 60-61, _get_task: no task is found
BuildTaskFail ==
    /\ pc = "idle"
    /\ Called
    /\ trace' = <<Event("executable", None), Event("task failed", None)>>
    /\ Raise("build", "LookupError", None)
    /\ UNCHANGED <<status, spec, backend, lastUpdate>>

\* lines 60-62, Runtime.build raises
BuildRuntimeFail ==
    /\ pc = "idle"
    /\ Called
    /\ trace' = <<Event("executable", None), Event("task", None),
                  Event("build failed", None)>>
    /\ \E e \in ExcTexts : Raise("build", "EngineError", e)
    /\ UNCHANGED <<status, spec, backend, lastUpdate>>

\* lines 63-66: build_spec(self.kind, **new_spec)
build_spec(sp, new_spec) == [sp EXCEPT !.tag = new_spec]

\* Variant of BuildSetBuilt that moves only a CREATED Run to BUILT.
BuildSetBuiltFromCreatedOnly ==
    /\ pc = "idle"
    /\ Called
    /\ \E new_spec \in BuildPatches : spec' = build_spec(spec, new_spec)
    /\ status' = IF status.state = CREATED
                 THEN _set_state(status, BUILT) ELSE status
    /\ trace' = <<Event("executable", None), Event("task", None),
                  Event("build", None)>>
    /\ Goto("build", "build_save")
    /\ UNCHANGED <<backend, lastUpdate>>

\* lines 60-67: spec rebuilt from Runtime.build's dict, state set to BUILT
BuildSetBuilt ==
    /\ pc = "idle"
    /\ Called
    /\ \E new_spec \in BuildPatches : spec' = build_spec(spec, new_spec)
    /\ status' = _set_state(status, BUILT)
    /\ trace' = <<Event("executable", None), Event("task", None),
                  Event("build", None)>>
    /\ Goto("build", "build_save")
    /\ UNCHANGED <<backend, lastUpdate>>

\* line 68, self.save()
BuildSave ==
    /\ pc = "build_save"
    /\ backend' = Saved(status, spec)
    /\ trace' = Append(trace, Event("save", status.state))
    /\ Return("build")
    /\ UNCHANGED <<status, spec, exc, ret, prior, polls, slept, seen, lastUpdate, signals,
                   input, output>>

\* Variant of BuildSaveFail that puts the Run back to what the backend holds.
BuildSaveFailRollsBack ==
    /\ pc = "build_save"
    /\ status' = backend.status
    /\ spec' = backend.spec
    /\ trace' = Append(trace, Event("save failed", status.state))
    /\ Raise("build", "TransportError", None)
    /\ UNCHANGED <<backend, exc, ret, prior, polls, slept, seen,
                   lastUpdate, signals,
                   input, output>>

\* line 68, the save request fails: no rollback
BuildSaveFail ==
    /\ pc = "build_save"
    /\ trace' = Append(trace, Event("save failed", status.state))
    /\ Raise("build", "TransportError", None)
    /\ UNCHANGED <<status, spec, backend, exc, ret, prior, polls, slept, seen,
                   lastUpdate, signals,
                   input, output>>

Build ==
    \/ BuildExecutableFail \/ BuildTaskFail \/ BuildRuntimeFail
    \/ BuildSetBuilt \/ BuildSave \/ BuildSaveFail

(***************************************************************************)
(* Run.wait                                                                *)
(***************************************************************************)

\* polls and seen are bounded observations of an unbounded loop
CountPoll(n) == IF n < MaxPolls THEN n + 1 ELSE n
Observe(sq, s) ==
    IF Len(sq) < MaxPolls THEN Append(sq, s) ELSE Append(Tail(sq), s)

\* line 125, time.sleep(5): the time slept by the loop, observed up to the
\* same number of polls as polls
SleepUnits == 5
sleep(t) == IF t < SleepUnits * MaxPolls THEN t + SleepUnits ELSE t

\* Variant of WaitIsOver that does not treat STOPPED as final.
WaitIsOverNotStopped(st) == st.state \in {ERROR, COMPLETED}

\* lines 126-130: the test that ends the loop
WaitIsOver(st) == st.state \in {STOPPED, ERROR, COMPLETED}

\* line 120: wait() is called
WaitCall ==
    /\ pc = "idle"
    /\ Called
    /\ trace' = <<>>
    /\ Goto("wait", "wait")
    /\ UNCHANGED <<status, spec, backend, lastUpdate>>

\* Variant of WaitPollReturn that tests the state before it sleeps and
\* returns at once when it is final.
WaitPollReturnNoSleep ==
    /\ pc = "wait"
    /\ WaitIsOver(RefreshedStatus)
    /\ status' = RefreshedStatus
    /\ spec' = RefreshedSpec
    /\ polls' = CountPoll(polls)
    /\ slept' = slept
    /\ seen' = Observe(seen, RefreshedStatus.state)
    /\ Return("wait")
    /\ UNCHANGED <<backend, exc, ret, prior, trace, lastUpdate, signals,
                   input, output>>

\* lines 124-134: refresh, sleep, the state is final: return self
WaitPollReturn ==
    /\ pc = "wait"
    /\ WaitIsOver(RefreshedStatus)
    /\ status' = RefreshedStatus
    /\ spec' = RefreshedSpec
    /\ polls' = CountPoll(polls)
    /\ slept' = sleep(slept)
    /\ seen' = Observe(seen, RefreshedStatus.state)
    /\ Return("wait")
    /\ UNCHANGED <<backend, exc, ret, prior, trace, lastUpdate, signals,
                   input, output>>

\* Variant of WaitPollAgain that gives up after two polls.
WaitPollAgainWithTimeout ==
    /\ pc = "wait"
    /\ ~ WaitIsOver(RefreshedStatus)
    /\ status' = RefreshedStatus
    /\ spec' = RefreshedSpec
    /\ polls' = CountPoll(polls)
    /\ slept' = sleep(slept)
    /\ seen' = Observe(seen, RefreshedStatus.state)
    /\ IF polls >= 1
       THEN Raise("wait", "TimeoutError", None)
       ELSE Goto("wait", "wait")
    /\ UNCHANGED <<backend, exc, ret, prior, trace, lastUpdate, signals,
                   input, output>>

\* lines 121-126: refresh, sleep, the state is not final: loop
WaitPollAgain ==
    /\ pc = "wait"
    /\ ~ WaitIsOver(RefreshedStatus)
    /\ status' = RefreshedStatus
    /\ spec' = RefreshedSpec
    /\ polls' = CountPoll(polls)
    /\ slept' = sleep(slept)
    /\ seen' = Observe(seen, RefreshedStatus.state)
    /\ Goto("wait", "wait")
    /\ UNCHANGED <<backend, exc, ret, prior, trace, lastUpdate, signals,
                   input, output>>

\* line 124, the refresh request fails: the error leaves wait()
WaitPollFail ==
    /\ pc = "wait"
    /\ Raise("wait", "TransportError", None)
    /\ UNCHANGED <<status, spec, backend, exc, ret, prior, trace, polls, slept, seen,
                   lastUpdate, signals,
                   input, output>>

Wait == WaitCall \/ WaitPollReturn \/ WaitPollAgain \/ WaitPollFail

(***************************************************************************)
(* Run.stop and Run.resume                                                 *)
(***************************************************************************)

\* Identity of the Run: self.project, self.ENTITY_TYPE (line 31), self.id
project == "proj"
ENTITY_TYPE == "EntityTypes.RUN"
id == "run-1"

\* A request to the processor, with the arguments it is called with.
Signal(req, p, t, i) == [req |-> req, project |-> p, entity_type |-> t, id |-> i]

\* What the processor answers to stop_run / resume_run.
Response == "response"

\* An operation that is a single processor request ends.
Signalled(op, outcome, value) ==
    /\ pc' = "idle"
    /\ result' = [op |-> op, outcome |-> outcome, exc |-> None,
                  value |-> value]
    /\ trace' = <<>>
    /\ Entered
    /\ UNCHANGED <<status, spec, backend, lastUpdate>>

\* Variant of StopLocal that signals the processor for a local Run too.
StopLocalSignals ==
    /\ pc = "idle"
    /\ spec.local_execution
    /\ signals' = <<Signal("stop_run", project, ENTITY_TYPE, id)>>
    /\ Signalled("stop", "ok", Response)

\* lines 155-156, local execution: nothing is done, None is returned
StopLocal ==
    /\ pc = "idle"
    /\ spec.local_execution
    /\ signals' = <<>>
    /\ Signalled("stop", "ok", None)

\* lines 155-156: processor.stop_run(project, ENTITY_TYPE, id) is returned
StopRemote ==
    /\ pc = "idle"
    /\ ~ spec.local_execution
    /\ signals' = <<Signal("stop_run", project, ENTITY_TYPE, id)>>
    /\ Signalled("stop", "ok", Response)

\* line 156, the request fails
StopRemoteFail ==
    /\ pc = "idle"
    /\ ~ spec.local_execution
    /\ signals' = <<Signal("stop_run", project, ENTITY_TYPE, id)>>
    /\ Signalled("stop", "TransportError", None)

\* lines 166-167, local execution: nothing is done, None is returned
ResumeLocal ==
    /\ pc = "idle"
    /\ spec.local_execution
    /\ signals' = <<>>
    /\ Signalled("resume", "ok", None)

\* lines 166-167: processor.resume_run(project, ENTITY_TYPE, id) is returned
ResumeRemote ==
    /\ pc = "idle"
    /\ ~ spec.local_execution
    /\ signals' = <<Signal("resume_run", project, ENTITY_TYPE, id)>>
    /\ Signalled("resume", "ok", Response)

\* line 167, the request fails
ResumeRemoteFail ==
    /\ pc = "idle"
    /\ ~ spec.local_execution
    /\ signals' = <<Signal("resume_run", project, ENTITY_TYPE, id)>>
    /\ Signalled("resume", "TransportError", None)

\* Variant of Logs that asks the processor only for a Run that is not
\* executed locally, as stop() and resume() do.
LogsRemoteOnly ==
    /\ pc = "idle"
    /\ IF spec.local_execution
       THEN /\ signals' = <<>>
            /\ Signalled("logs", "ok", None)
       ELSE /\ signals' = <<Signal("read_run_logs", project, ENTITY_TYPE, id)>>
            /\ \E ok \in BOOLEAN :
                  IF ok THEN Signalled("logs", "ok", Response)
                        ELSE Signalled("logs", "TransportError", None)

\* line 145: processor.read_run_logs(project, ENTITY_TYPE, id) is returned,
\* or the request fails
Logs ==
    /\ pc = "idle"
    /\ signals' = <<Signal("read_run_logs", project, ENTITY_TYPE, id)>>
    /\ \E ok \in BOOLEAN :
          IF ok THEN Signalled("logs", "ok", Response)
                ELSE Signalled("logs", "TransportError", None)

Stop == StopLocal \/ StopRemote \/ StopRemoteFail

Resume == ResumeLocal \/ ResumeRemote \/ ResumeRemoteFail

Next == Run \/ Build \/ Wait \/ Stop \/ Resume \/ Logs \/ BackendUpdate

Spec == Init /\ [][Next]_vars

\* The loop of wait() keeps polling: a poll whose refresh is answered is
\* eventually made while wait() is running.
LiveSpec == Spec /\ WF_vars(WaitPollReturn \/ WaitPollAgain)

(***************************************************************************)
(* Functions of the SDK studied on their own: input holds the arguments,   *)
(* one action applies the function and stores what it returned or raised.  *)
(***************************************************************************)

\* dict.get(k): None when the key is absent
Get(kw, k) == IF k \in DOMAIN kw THEN kw[k] ELSE None

\* The function returned v / raised an exception of class c with text t.
Returned(v) == [outcome |-> "ok", value |-> v]
Raised(c, t) == [outcome |-> c, value |-> t]

\* sdk/entities/base/status.py: the names of the members of State
StateMembers ==
    {"BUILT", "COMPLETED", "CREATED", "ERROR", "IDLE", "PENDING", "READY",
     "RUNNING", "STOP"}

\* sdk/entities/builders/status.py, lines 115-121: the registered modules
RegisteredModules == {"ARTF", "DTIT", "FUNC", "PROJ", "RUNS", "TASK", "WKFL"}

\* Variant of InvalidState that lets any state through.
InvalidStateNever(kwargs) == FALSE

\* StatusBuilder._parse_arguments, lines 86-91: the ValueError condition
InvalidState(kwargs) ==
    /\ Get(kwargs, "state") # None
    /\ kwargs["state"] \notin StateMembers

\* StatusBuilder._parse_arguments, lines 86-92: kwargs with the default state
WithDefaultState(kwargs) ==
    IF Get(kwargs, "state") = None
    THEN [k \in DOMAIN kwargs \cup {"state"} |->
             IF k = "state" THEN CREATED ELSE kwargs[k]]
    ELSE kwargs

\* Status.__init__(state, message=None)
Status(kwargs) ==
    [state |-> kwargs["state"], message |-> Get(kwargs, "message")]

\* StatusBuilder.build / build_status(module, **kwargs)
build_status(module, kwargs) ==
    IF module \notin RegisteredModules
    THEN Raised("ValueError", "Invalid module name")
    ELSE IF InvalidState(kwargs)
    THEN Raised("ValueError", "Invalid state")
    ELSE Returned(Status(WithDefaultState(kwargs)))

\* Arguments build_status is studied on.
StateArguments == StateMembers \cup {None, "STOPPED", "running", "FINISHED"}

StatusKwargs ==
    UNION { { kw \in [D -> StateArguments \cup {"some message"}] :
                 /\ "state" \in D => kw["state"] \in StateArguments
                 /\ "message" \in D => kw["message"] = "some message" }
            : D \in SUBSET {"state", "message"} }

BuildStatusInputs ==
    [fn : {"build_status"},
     module : RegisteredModules \cup {"MODL"},
     kwargs : StatusKwargs]

ApplyBuildStatus ==
    /\ input.fn = "build_status"
    /\ output = NoOutput
    /\ output' = build_status(input.module, input.kwargs)
    /\ UNCHANGED <<runvars, input>>

(***************************************************************************)
(* sdk/entities/run/entity.py: Run.to_dict and Run.from_dict               *)
(***************************************************************************)

\* An empty dict
EmptyDict == <<>>

\* Run.__init__(project, task_id, task, spec, local, uuid, **kwargs),
\* lines 54-64: kind is "run", status starts as {}, get_uiid keeps a uuid
\* that is given
NewRun(proj, task_id, task, sp, uuid, kind) ==
    [project |-> proj, kind |-> kind, id |-> uuid, task_id |-> task_id,
     task |-> task, status |-> EmptyDict, spec |-> sp]

\* Entity.to_dict: the mapping of the attributes of the Run
to_dict(run) ==
    [k \in {"project", "kind", "id", "task_id", "task", "status", "spec"} |->
        run[k]]

\* Run._parse_dict, lines 313-318: the mandatory fields
MissingMandatory(obj) ==
    \/ Get(obj, "project") = None
    \/ Get(obj, "task_id") = None
    \/ Get(obj, "task") = None

\* Run._parse_dict, lines 320-336: the arguments handed to Run.__init__;
\* the status key of obj is not among them
_parse_dict(obj) ==
    [project |-> obj["project"],
     task_id |-> obj["task_id"],
     task |-> obj["task"],
     kind |-> IF "kind" \in DOMAIN obj THEN obj["kind"] ELSE "run",
     uuid |-> Get(obj, "id"),
     spec |-> IF Get(obj, "spec") = None THEN InitialSpec ELSE obj["spec"]]

\* Run.from_dict, lines 292-295
from_dict(obj) ==
    IF MissingMandatory(obj)
    THEN Raised("EntityError", "Project, task or task_id are not specified.")
    ELSE LET parsed == _parse_dict(obj)
         IN  Returned(NewRun(parsed.project, parsed.task_id, parsed.task,
                             parsed.spec, parsed.uuid, parsed.kind))

\* Status dicts a Run can hold after set_status (lines 235-255).
RunStatusDicts ==
    {EmptyDict, [state |-> COMPLETED],
     [state |-> ERROR, message |-> "engine failed"]}

\* Runs the round trip is studied on.
RoundTripInputs ==
    [fn : {"round_trip"},
     run : [project : {"proj"}, kind : {"run"}, id : {"run-1", "run-2"},
            task_id : {"task-1"}, task : {"job://proj/job/myfunc:abc123"},
            status : RunStatusDicts, spec : {InitialSpec} \cup BuildPatches]]

ApplyRoundTrip ==
    /\ input.fn = "round_trip"
    /\ output = NoOutput
    /\ output' = from_dict(to_dict(input.run))
    /\ UNCHANGED <<runvars, input>>

(***************************************************************************)
(* digitalhub/entities/run/_base/entity.py: _get_executable and _get_task  *)
(***************************************************************************)

\* Strings are sequences of characters; a word without separators may
\* stand as one character.
MaxLen == 5
Chars == {"a", "/", ":"}
ExampleTask ==
    <<"job", ":", "/", "/", "proj", "/", "job", "/", "myfunc", ":", "abc123">>
TaskStrings == UNION {[1..n -> Chars] : n \in 0..MaxLen} \cup {ExampleTask}

\* str.split(sep): the pieces between the occurrences of sep, left to right
RECURSIVE split(_, _)
split(s, sep) ==
    LET n == Len(sep)
        at == {i \in 1..(Len(s) - n + 1) : SubSeq(s, i, i + n - 1) = sep}
    IN  IF at = {}
        THEN <<s>>
        ELSE LET i == CHOOSE j \in at : \A k \in at : j <= k
             IN  <<SubSeq(s, 1, i - 1)>> \o split(SubSeq(s, i + n, Len(s)), sep)

\* Kinds of Run and the executable each belongs to.
RunKinds == {"kfp+run", "python+run"}
get_executable_kind(kind) == IF kind = "kfp+run" THEN "kfp" ELSE "python"
get_entity_type_from_kind(kind) ==
    IF kind = "kfp" THEN "workflows" ELSE "functions"

\* lines 264-269: the read request of the executable
read_context_entity(name, entity_type, proj, entity_id) ==
    [name |-> name, entity_type |-> entity_type, project |-> proj,
     entity_id |-> entity_id]

\* Variant of _get_executable that reads the name from the first segment.
_get_executableFirstSegment(run) ==
    LET exec_kind == get_executable_kind(run.kind)
        entity_type == get_entity_type_from_kind(exec_kind)
        splitted == split(run.task, <<"/">>)
        parts == split(splitted[Len(splitted)], <<":">>)
    IN  IF Len(parts) < 2
        THEN Raised("IndexError", "list index out of range")
        ELSE Returned(read_context_entity(split(splitted[1], <<":">>)[1],
                                          entity_type, run.project, parts[2]))

\* lines 259-269
_get_executable(run) ==
    LET exec_kind == get_executable_kind(run.kind)
        entity_type == get_entity_type_from_kind(exec_kind)
        splitted == split(run.task, <<"/">>)
        parts == split(splitted[Len(splitted)], <<":">>)
    IN  IF Len(parts) < 2
        THEN Raised("IndexError", "list index out of range")
        ELSE Returned(read_context_entity(parts[1], entity_type, run.project,
                                          parts[2]))

GetExecutableInputs ==
    [fn : {"_get_executable"}, kind : RunKinds, project : {"proj"},
     task : TaskStrings]

ApplyGetExecutable ==
    /\ input.fn = "_get_executable"
    /\ output = NoOutput
    /\ output' = _get_executable(input)
    /\ UNCHANGED <<runvars, input>>

\* The separator of the executable kind in a reference
KindSeparator == <<":", "/", "/">>

\* line 282: f"{executable_kind}://{self.spec.task.split('://')[1]}"
exec_string(kind, task) ==
    <<get_executable_kind(kind)>> \o KindSeparator
        \o split(task, KindSeparator)[2]

\* line 294: the backend's list of the Tasks that match params
list_context_entities(tasks, params) ==
    LET Matches(t) == /\ t.spec.function = params.function
                      /\ t.kind = params.kind
    IN  SelectSeq(tasks, Matches)

\* Variant of _get_task that returns the last matching Task in local mode.
_get_taskLastMatch(run) ==
    LET pieces == split(run.task, KindSeparator)
    IN  IF Len(pieces) < 2
        THEN Raised("IndexError", "list index out of range")
        ELSE
          LET ref == exec_string(run.kind, run.task)
              at == {i \in 1..Len(run.tasks) :
                        run.tasks[i].spec.function = ref}
              found == list_context_entities(
                           run.tasks, [function |-> ref, kind |-> pieces[1]])
          IN  IF run.local
              THEN IF at = {}
                   THEN Raised("EntityError", "Task not found.")
                   ELSE Returned(run.tasks[CHOOSE i \in at :
                                              \A j \in at : j <= i])
              ELSE IF found = <<>>
                   THEN Raised("IndexError", "list index out of range")
                   ELSE Returned(found[1])

\* lines 281-295
_get_task(run) ==
    LET pieces == split(run.task, KindSeparator)
    IN  IF Len(pieces) < 2
        THEN Raised("IndexError", "list index out of range")
        ELSE
          LET ref == exec_string(run.kind, run.task)
              at == {i \in 1..Len(run.tasks) :
                        run.tasks[i].spec.function = ref}
              found == list_context_entities(
                           run.tasks, [function |-> ref, kind |-> pieces[1]])
          IN  IF run.local
              THEN IF at = {}
                   THEN Raised("EntityError", "Task not found.")
                   ELSE Returned(run.tasks[CHOOSE i \in at :
                                              \A j \in at : i <= j])
              ELSE IF found = <<>>
                   THEN Raised("IndexError", "list index out of range")
                   ELSE Returned(found[1])

\* Tasks of the context: each is for the Run's executable or for another
\* one, and of the kind the Run's task names or of another kind.
MaxTasks == 2
TaskSorts == {"same", "other function", "other kind"}
TaskEntity(i, kind, task, sort) ==
    LET pieces == split(task, KindSeparator)
    IN  [name |-> i,
         kind |-> IF sort = "other kind" THEN <<"build">> ELSE pieces[1],
         spec |-> [function |->
                     IF sort = "other function" \/ Len(pieces) < 2
                     THEN <<"kfp">> \o KindSeparator \o <<"other", ":", "0">>
                     ELSE exec_string(kind, task)]]

GetTaskInputs ==
    {[fn |-> "_get_task", kind |-> k, project |-> "proj", task |-> t,
      local |-> l,
      tasks |-> [i \in 1..Len(sorts) |-> TaskEntity(i, k, t, sorts[i])]] :
        k \in RunKinds, t \in TaskStrings, l \in BOOLEAN,
        sorts \in UNION {[1..n -> TaskSorts] : n \in 0..MaxTasks}}

ApplyGetTask ==
    /\ input.fn = "_get_task"
    /\ output = NoOutput
    /\ output' = _get_task(input)
    /\ UNCHANGED <<runvars, input>>

(***************************************************************************)
(* digitalhub/entities/run/_base/entity.py: two calls of build()           *)
(***************************************************************************)

\* Spec dicts of an executable, a Task and a Run.
SpecDicts == UNION {[K -> {"x", "y"}] : K \in SUBSET {"image", "args"}}

\* Runtime.build(executable, task, run): the spec dict of the Run, laid
\* over the Task's, laid over the executable's
Runtime_build(executable, task, run) ==
    [k \in DOMAIN executable.spec \cup DOMAIN task.spec \cup DOMAIN run.spec |->
        IF k \in DOMAIN run.spec THEN run.spec[k]
        ELSE IF k \in DOMAIN task.spec THEN task.spec[k]
        ELSE executable.spec[k]]

\* Variant of build that takes a BUILT Run back to CREATED.
buildResetsBuilt(executable, task, run) ==
    [spec |-> Runtime_build(executable, task, run),
     state |-> IF run.state = BUILT THEN CREATED ELSE BUILT]

\* lines 60-68: the spec is rebuilt from Runtime.build's dict alone and the
\* state is set to BUILT
build(executable, task, run) ==
    [spec |-> Runtime_build(executable, task, run), state |-> BUILT]

BuildInputs ==
    [fn : {"build"}, executable : [spec : SpecDicts], task : [spec : SpecDicts],
     run : [spec : SpecDicts, state : States]]

\* build() is called once, and twice in a row, on the same Run.
ApplyBuildTwice ==
    /\ input.fn = "build"
    /\ output = NoOutput
    /\ LET once == build(input.executable, input.task, input.run)
       IN  output' = Returned([once |-> once,
                               twice |-> build(input.executable, input.task,
                                               once)])
    /\ UNCHANGED <<runvars, input>>

(***************************************************************************)
(* sdk/entities/dataitem/entity.py: Dataitem.as_df                         *)
(***************************************************************************)

\* lines 241-250, _get_extension: the file format given, parquet for sql,
\* the extension of the path, or EntityError when the path has none
_get_extension(scheme, ext, file_format) ==
    IF file_format # None THEN Returned(file_format)
    ELSE IF scheme = "sql" THEN Returned("parquet")
    ELSE IF ext = None
    THEN Raised("EntityError",
                "Unknown file format. Only csv and parquet are supported.")
    ELSE Returned(ext)

\* What a call of as_df did to the temporary folder, and how it ended.
Ended(end, downloaded, cleaned) ==
    [outcome |-> end.outcome, value |-> end.value,
     downloaded |-> downloaded, cleaned |-> cleaned]

\* lines 164-184; d describes the dataitem's path and what the store does
as_df(d) ==
    IF d.scheme = None
    THEN Ended(Raised("EntityError", "Path is not specified."), FALSE, FALSE)
    ELSE
      LET extension == _get_extension(d.scheme, d.ext, d.file_format)
          tmp_path == d.scheme # "local"
      IN  IF extension.outcome # "ok" THEN Ended(extension, FALSE, FALSE)
          ELSE IF tmp_path /\ ~ d.download_ok
          THEN Ended(Raised("StoreError", "download"), FALSE, FALSE)
          ELSE IF ~ d.read_ok
          THEN Ended(Raised("StoreError", "read_df"), tmp_path, FALSE)
          ELSE Ended(Returned(extension.value), tmp_path, tmp_path)

\* Dataitems: no path, or a path of a scheme with or without an extension,
\* and a store whose download and read_df succeed or raise.
AsDfInputs ==
    [fn : {"as_df"}, scheme : {None, "local", "s3", "sql"},
     ext : {None, "csv"}, file_format : {None, "parquet"},
     download_ok : BOOLEAN, read_ok : BOOLEAN]

ApplyAsDf ==
    /\ input.fn = "as_df"
    /\ output = NoOutput
    /\ output' = as_df(input)
    /\ UNCHANGED <<runvars, input>>

(***************************************************************************)
(* digitalhub_runtime_kfp/dsl.py: PipelineContext.step                     *)
(***************************************************************************)

\* A pipeline parameter given where an output name is expected.
PipelineParam == <<"PipelineParam">>

\* lines 98 and 124-130: the file outputs of the step; outputs maps each
\* output parameter to a name, whose "." become "_" in the key
FileOutputs(outputs) ==
    LET Key(v) == [i \in DOMAIN v |-> IF v[i] = "." THEN "_" ELSE v[i]]
        named == {Key(outputs[p]) : p \in DOMAIN outputs}
    IN  [k \in {<<"run_id">>} \cup named |->
            IF k \in named
            THEN <<"/tmp/entity_">> \o (CHOOSE p \in DOMAIN outputs :
                                          Key(outputs[p]) = k)
            ELSE <<"/tmp/run_id">>]

\* Variant of step that leaves an omitted action as it is.
stepKeepsAction(d) ==
    LET end(e, n) == [outcome |-> e.outcome, value |-> e.value, lookups |-> n]
    IN  IF d.function = None /\ d.workflow = None
        THEN end(Raised("RuntimeError",
                        "Either function or workflow must be provided."), 0)
        ELSE IF ~ d.found
        THEN end(Raised("RuntimeError", "not found"), 1)
        ELSE IF \E p \in DOMAIN d.outputs : d.outputs[p] = PipelineParam
        THEN end(Raised("Exception", "Invalid output specification."), 1)
        ELSE IF d.function # None /\ d.workflow # None
        THEN end(Raised("UnboundLocalError", "workflow_object"), 1)
        ELSE end(Returned([action |-> d.action,
                           file_outputs |-> FileOutputs(d.outputs)]), 1)

\* lines 75-146; d.found tells whether dh.get_function or dh.get_workflow
\* returns an object
step(d) ==
    LET end(e, n) == [outcome |-> e.outcome, value |-> e.value, lookups |-> n]
        action == IF d.function = None /\ d.action = None
                  THEN "pipeline" ELSE d.action
    IN  IF d.function = None /\ d.workflow = None
        THEN end(Raised("RuntimeError",
                        "Either function or workflow must be provided."), 0)
        ELSE IF ~ d.found
        THEN end(Raised("RuntimeError", "not found"), 1)
        ELSE IF \E p \in DOMAIN d.outputs : d.outputs[p] = PipelineParam
        THEN end(Raised("Exception", "Invalid output specification."), 1)
        ELSE IF d.function # None /\ d.workflow # None
        THEN end(Raised("UnboundLocalError", "workflow_object"), 1)
        ELSE end(Returned([action |-> action,
                           file_outputs |-> FileOutputs(d.outputs)]), 1)

StepInputs ==
    [fn : {"step"}, function : {None, "f"}, workflow : {None, "w"},
     action : {None, "job"}, found : BOOLEAN,
     outputs : {<<>>} \cup
               [{"o"} -> {<<"table">>, <<"run_id">>, <<"a", ".", "b">>,
                          PipelineParam}]]

ApplyStep ==
    /\ input.fn = "step"
    /\ output = NoOutput
    /\ output' = step(input)
    /\ UNCHANGED <<runvars, input>>

(***************************************************************************)
(* sdk/entities/run/entity.py: Run.save, Run.refresh, Run.delete           *)
(***************************************************************************)

\* What a method of the Run did: how it ended, the Run after it, and the
\* requests it sent to the backend.
Done(end, run, requests) ==
    [outcome |-> end.outcome, value |-> end.value, run |-> run,
     requests |-> requests]

\* Variant of save that sends the status with the payload.
saveWithStatus(run, local, response) ==
    LET request == [method |-> "create", api |-> "runs",
                    payload |-> to_dict(run)]
    IN  IF local
        THEN Done(Raised("EntityError", "Use .export() for local execution."),
                  run, <<>>)
        ELSE IF ~ response.ok
        THEN Done(Raised("BackendError", None), run, <<request>>)
        ELSE Done(Returned(response.body),
                  IF Get(response.body, "id") # None
                  THEN [run EXCEPT !.id = response.body["id"]] ELSE run,
                  <<request>>)

\* lines 87-106; response is the backend's answer to the create request,
\* which fails or carries a mapping
save(run, local, response) ==
    LET obj == to_dict(run)
        request == [method |-> "create", api |-> "runs",
                    payload |-> [k \in DOMAIN obj \ {"status"} |-> obj[k]]]
    IN  IF local
        THEN Done(Raised("EntityError", "Use .export() for local execution."),
                  run, <<>>)
        ELSE IF ~ response.ok
        THEN Done(Raised("BackendError", None), run, <<request>>)
        ELSE Done(Returned(response.body),
                  IF Get(response.body, "id") # None
                  THEN [run EXCEPT !.id = response.body["id"]] ELSE run,
                  <<request>>)

\* Variant of refresh_or_delete without the test of the local flag.
refresh_or_deleteUnguarded(method, run, local, response) ==
    LET request == [method |-> IF method = "refresh" THEN "read" ELSE "delete",
                    api |-> "runs", id |-> run.id]
    IN  IF ~ response.ok
        THEN Done(Raised("BackendError", None), run, <<request>>)
        ELSE Done(Returned(response.body), run, <<request>>)

\* lines 143-147 (refresh) and 157-161 (delete)
refresh_or_delete(method, run, local, response) ==
    LET request == [method |-> IF method = "refresh" THEN "read" ELSE "delete",
                    api |-> "runs", id |-> run.id]
    IN  IF local
        THEN Done(Raised("EntityError",
                         IF method = "refresh" THEN "Cannot refresh local run."
                         ELSE "Cannot delete local run."), run, <<>>)
        ELSE IF ~ response.ok
        THEN Done(Raised("BackendError", None), run, <<request>>)
        ELSE Done(Returned(response.body), run, <<request>>)

\* A Run, its local flag, the method called and the backend's answer: a
\* failure, or a mapping with or without the id the backend gave.
RunMethodInputs ==
    [fn : {"Run"}, method : {"save", "refresh", "delete"},
     run : {r.run : r \in RoundTripInputs}, local : BOOLEAN,
     response : [ok : BOOLEAN, body : {EmptyDict, [id |-> "run-9"]}]]

ApplyRunMethod ==
    /\ input.fn = "Run"
    /\ output = NoOutput
    /\ output' = IF input.method = "save"
                 THEN save(input.run, input.local, input.response)
                 ELSE refresh_or_delete(input.method, input.run, input.local,
                                        input.response)
    /\ UNCHANGED <<runvars, input>>

(***************************************************************************)
(* sdk/entities/dataitem/entity.py: Dataitem.__init__ and Dataitem.save    *)
(***************************************************************************)

\* lines 82-84: store://<project>/dataitems/<kind>/<name>:<uuid>
DataitemKey(proj, knd, nm, uuid) ==
    <<"store://", proj, "/dataitems/", knd, "/", nm, ":", uuid>>

\* lines 65-84: the attributes of a new Dataitem, uid being the value of
\* get_uiid(uuid=uuid) at line 68; spec.key is set here
NewDataitem(proj, nm, knd, local, uid) ==
    LET self == [project |-> proj, name |-> nm, id |-> uid,
                 kind |-> IF knd # None THEN knd ELSE "table",
                 local |-> local]
    IN  [project |-> self.project, name |-> self.name, id |-> self.id,
         kind |-> self.kind, local |-> self.local,
         key |-> DataitemKey(self.project, self.kind, self.name, self.id)]

\* lines 104-115: one call of save; obj is taken before self.id is assigned,
\* and nothing assigns spec.key
Dataitem_save(self, uuid) ==
    LET obj == [id |-> self.id, key |-> self.key]
    IN  IF self.local
        THEN [outcome |-> "EntityError", item |-> self, requests |-> <<>>]
        ELSE IF uuid = None
        THEN [outcome |-> "ok", item |-> self,
              requests |-> <<[method |-> "create", name |-> None,
                              uuid |-> None, obj |-> obj]>>]
        ELSE [outcome |-> "ok", item |-> [self EXCEPT !.id = uuid],
              requests |-> <<[method |-> "update", name |-> self.name,
                              uuid |-> uuid, obj |-> obj]>>]

\* The calls save(uuids[1]), save(uuids[2]), ... made one after the other
\* on the same Dataitem, up to the first that raises.
RECURSIVE Saves(_, _, _)
Saves(self, uuids, requests) ==
    IF uuids = <<>>
    THEN [outcome |-> "ok", item |-> self, requests |-> requests]
    ELSE LET r == Dataitem_save(self, Head(uuids))
         IN  IF r.outcome # "ok"
             THEN [r EXCEPT !.requests = requests \o @]
             ELSE Saves(r.item, Tail(uuids), requests \o r.requests)

MaxSaves == 2

DataitemInputs ==
    [fn : {"Dataitem"}, kind : {None, "sql"}, id : {"id-0", "id-1"},
     local : BOOLEAN,
     saves : UNION {[1..n -> {None, "id-1", "id-2"}] : n \in 0..MaxSaves}]

ApplyDataitem ==
    /\ input.fn = "Dataitem"
    /\ output = NoOutput
    /\ output' = Saves(NewDataitem("proj", "d", input.kind, input.local,
                                   input.id),
                       input.saves, <<>>)
    /\ UNCHANGED <<runvars, input>>

FnInputs ==
    BuildStatusInputs \cup RoundTripInputs \cup GetExecutableInputs
        \cup GetTaskInputs \cup BuildInputs \cup
        AsDfInputs \cup
        StepInputs \cup
        RunMethodInputs \cup
        DataitemInputs

FnInit ==
    /\ RunInit
    /\ input \in FnInputs
    /\ output = NoOutput

FnNext ==
    \/ ApplyBuildStatus \/ ApplyRoundTrip \/ ApplyGetExecutable
    \/ ApplyGetTask \/ ApplyBuildTwice
    \/ ApplyAsDf
    \/ ApplyStep
    \/ ApplyRunMethod
    \/ ApplyDataitem

FnSpec == FnInit /\ [][FnNext]_vars

(***************************************************************************)
(* sdk/entities/projects/crud.py: delete_project                           *)
(***************************************************************************)

\* line 187: the entity types whose objects are deleted with the project
Dtos == <<"ARTF", "FUNC", "WKFL", "DTIT">>

\* The most objects a read of one entity type returns.
MaxObjs == 2

DeleteProjectInputs ==
    [fn : {"delete_project"}, name : {"proj"}, delete_all : BOOLEAN]

\* lines 182-186: the call has got its client and an empty response list
DeleteProjectCalled(delete_all) ==
    [outcome |-> "running",
     pc |-> IF delete_all THEN "read" ELSE "project",
     dto |-> 1, todo |-> 0, calls |-> <<>>, responses |-> 0,
     context |-> TRUE]

\* One request or step of delete_project, and whether it succeeded.
Request(req, dto, ok) == [req |-> req, dto |-> dto, ok |-> ok]

\* line 187: the loop goes to the next entity type, or ends
NextDto(o) ==
    IF o.dto < Len(Dtos)
    THEN [o EXCEPT !.pc = "read", !.dto = o.dto + 1, !.todo = 0]
    ELSE [o EXCEPT !.pc = "project", !.todo = 0]

\* lines 189-195: client.read_object(api_proj) returns objects, or fails
\* and the failure is passed over
ReadObjects ==
    /\ output.pc = "read"
    /\ \E ok \in BOOLEAN : \E n \in 0..MaxObjs :
          LET o == [output EXCEPT
                       !.calls = Append(@, Request("read", Dtos[output.dto], ok))]
          IN  /\ ~ ok => n = 0
              /\ output' = IF ok /\ n > 0
                           THEN [o EXCEPT !.pc = "delete", !.todo = n]
                           ELSE NextDto(o)
    /\ UNCHANGED <<runvars, input>>

\* lines 191-195: client.delete_object(api) of one object; a failure ends
\* the loop over the objects of this entity type
DeleteObject ==
    /\ output.pc = "delete"
    /\ \E ok \in BOOLEAN :
          LET o == [output EXCEPT
                       !.calls = Append(@, Request("delete", Dtos[output.dto], ok)),
                       !.todo = @ - 1,
                       !.responses = IF ok THEN @ + 1 ELSE @]
          IN  output' = IF ok /\ o.todo > 0 THEN o ELSE NextDto(o)
    /\ UNCHANGED <<runvars, input>>

\* Variant of DeleteProject that lets the failure of the delete out.
DeleteProjectRaises ==
    /\ output.pc = "project"
    /\ \E ok \in BOOLEAN :
          output' = [output EXCEPT
                        !.calls = Append(@, Request("delete", "PROJ", ok)),
                        !.responses = IF ok THEN @ + 1 ELSE @,
                        !.pc = IF ok THEN "context" ELSE "done",
                        !.outcome = IF ok THEN @ ELSE "Exception"]
    /\ UNCHANGED <<runvars, input>>

\* lines 197-202: the project is deleted; a failure is passed over
DeleteProject ==
    /\ output.pc = "project"
    /\ \E ok \in BOOLEAN :
          output' = [output EXCEPT
                        !.calls = Append(@, Request("delete", "PROJ", ok)),
                        !.responses = IF ok THEN @ + 1 ELSE @,
                        !.pc = "context"]
    /\ UNCHANGED <<runvars, input>>

\* lines 204-206: delete_context(name), then the responses are returned
DeleteContext ==
    /\ output.pc = "context"
    /\ output' = [output EXCEPT
                     !.calls = Append(@, Request("delete_context", input.name, TRUE)),
                     !.context = FALSE,
                     !.pc = "done",
                     !.outcome = "ok"]
    /\ UNCHANGED <<runvars, input>>

delete_project == ReadObjects \/ DeleteObject \/ DeleteProject \/ DeleteContext

DeleteProjectInit ==
    /\ RunInit
    /\ input \in DeleteProjectInputs
    /\ output = DeleteProjectCalled(input.delete_all)

\* The call runs on to its end: nothing in delete_project waits.
DeleteProjectSpec ==
    DeleteProjectInit /\ [][delete_project]_vars /\ WF_vars(delete_project)

(***************************************************************************)
(* Run.run called by two clients on the same local-execution Run: each     *)
(* client holds its own in-memory copy, the backend record is shared, and  *)
(* the steps of the two calls interleave at the backend requests.          *)
(***************************************************************************)

Clients == {"c1", "c2"}

\* Status dicts the Runtime of a client returns.
ClientPatches == {p \in EnginePatches : DOMAIN p = {"state"}}

\* Both clients hold the Run as built, and neither has called run() yet.
TwoClientsCalled(st) ==
    [pc      |-> [c \in Clients |-> "idle"],
     status  |-> [c \in Clients |-> st],
     ret     |-> [c \in Clients |-> NoPatch],
     read    |-> [c \in Clients |-> None],
     invoked |-> {}]

\* lines 79-83: refresh, readiness test on the refreshed state, set RUNNING
ClientRun(c) ==
    /\ output.pc[c] = "idle"
    /\ output' =
          IF _is_ready_to_run(RefreshedStatus)
          THEN [output EXCEPT !.pc[c] = "run_save",
                              !.read[c] = RefreshedStatus.state,
                              !.status[c] = _set_state(RefreshedStatus, RUNNING)]
          ELSE [output EXCEPT !.pc[c] = "raised",
                              !.read[c] = RefreshedStatus.state,
                              !.status[c] = RefreshedStatus]
    /\ UNCHANGED <<runvars, input>>

\* line 84: the client saves its copy, RUNNING, whatever the record holds
ClientSaveRunning(c) ==
    /\ output.pc[c] = "run_save"
    /\ backend' = Saved(output.status[c], backend.spec)
    /\ output' = [output EXCEPT !.pc[c] = "run_engine"]
    /\ UNCHANGED <<status, spec, pc, exc, ret, result, prior, trace, polls, slept,
                   seen, lastUpdate, signals, input>>

\* line 89: the client's Runtime executes the Run and returns a status
ClientEngine(c) ==
    /\ output.pc[c] = "run_engine"
    /\ \E p \in ClientPatches :
          output' = [output EXCEPT !.pc[c] = "ok_refresh",
                                   !.ret[c] = p,
                                   !.invoked = @ \cup {c}]
    /\ UNCHANGED <<runvars, input>>

\* lines 98-102: refresh and merge; a state build_status refuses ends run()
ClientOkRefresh(c) ==
    /\ output.pc[c] = "ok_refresh"
    /\ LET new_status == MergedStatus(RefreshedStatus, RefreshedSpec,
                                      output.ret[c])
       IN  output' =
              IF StatusRejected(new_status)
              THEN [output EXCEPT !.pc[c] = "raised",
                                  !.status[c] = RefreshedStatus]
              ELSE [output EXCEPT !.pc[c] = "ok_save",
                                  !.status[c] = _set_status(new_status)]
    /\ UNCHANGED <<runvars, input>>

\* lines 103-104: save and return
ClientOkSave(c) ==
    /\ output.pc[c] = "ok_save"
    /\ backend' = Saved(output.status[c], backend.spec)
    /\ output' = [output EXCEPT !.pc[c] = "done"]
    /\ UNCHANGED <<status, spec, pc, exc, ret, result, prior, trace, polls, slept,
                   seen, lastUpdate, signals, input>>

TwoClients ==
    \E c \in Clients :
        \/ ClientRun(c)
        \/ ClientSaveRunning(c)
        \/ ClientEngine(c)
        \/ ClientOkRefresh(c)
        \/ ClientOkSave(c)

\* The Run was built and saved with local_execution set before the calls.
TwoClientsInit ==
    /\ status = [state |-> BUILT, message |-> None, outputs |-> None]
    /\ spec = [local_execution |-> TRUE, tag |-> "s1"]
    /\ backend = Saved(status, spec)
    /\ pc = "idle"
    /\ exc = None
    /\ ret = NoPatch
    /\ result = Finished("build", "ok", None)
    /\ prior = CREATED
    /\ trace = <<>>
    /\ polls = 0
    /\ slept = 0
    /\ seen = <<>>
    /\ lastUpdate = None
    /\ signals = <<>>
    /\ input = [fn |-> "run", clients |-> Clients]
    /\ output = TwoClientsCalled(status)

TwoClientsSpec == TwoClientsInit /\ [][TwoClients]_vars

(***************************************************************************)
(* Properties                                                              *)
(***************************************************************************)

\* The current or last operation is run() on a local-execution Run whose
\* initial refresh succeeded.
LocalRun ==
    /\ result.op = "run"
    /\ spec.local_execution
    /\ trace # <<>>
    /\ trace[1].ev = "refresh"

HasEvent(e) == \E i \in DOMAIN trace : trace[i].ev = e

\* C1: for a local-execution Run, run() sets RUNNING (and goes on to the save
\* and the engine) only when the initial refresh read BUILT or STOPPED; for
\* any other refreshed state it ends with EntityError, the state is the one
\* that was read, and no save and no Runtime call was made.
C1_RunOnlyFromBuiltOrStopped ==
    LocalRun =>
        IF trace[1].st \in {BUILT, STOPPED}
        THEN result.outcome # "EntityError"
        ELSE /\ pc = "idle"
             /\ result.outcome = "EntityError"
             /\ status.state = trace[1].st
             /\ ~ HasEvent("save")
             /\ ~ HasEvent("engine")

\* C1 witness: a run() on a local Run that had COMPLETED was rejected.
C1_Witness ==
    /\ LocalRun
    /\ trace[1].st = COMPLETED
    /\ result.outcome = "EntityError"

\* C2: run() on a local-execution Run that is CREATED fails with the state
\* error, issues no save, and the state is still CREATED in memory and in the
\* backend.
C2_RunFromCreatedRejected ==
    (LocalRun /\ trace[1].st = CREATED) =>
        /\ pc = "idle"
        /\ result.outcome = "EntityError"
        /\ Len(trace) = 1
        /\ status.state = CREATED
        /\ backend.status.state = CREATED

\* C2 witness: a local Run in CREATED was asked to run and refused.
C2_Witness ==
    /\ LocalRun
    /\ trace[1].st = CREATED
    /\ prior = CREATED
    /\ result.outcome = "EntityError"

\* C3: for a local-execution Run, the Runtime call is directly preceded by
\* the successful save carrying RUNNING, and the backend holds RUNNING from
\* that save until the engine call has ended.
C3_RunningSavedBeforeEngine ==
    LocalRun =>
        /\ \A i \in DOMAIN trace :
              trace[i].ev = "engine" =>
                  /\ i = 3
                  /\ trace[1].st \in {BUILT, STOPPED}
                  /\ trace[2] = Event("save", RUNNING)
        /\ pc \in {"run_engine", "in_engine"} =>
              /\ backend.status.state = RUNNING
              /\ trace[2] = Event("save", RUNNING)

\* C3 witness: the engine of a local Run resumed from STOPPED is executing.
C3_Witness ==
    /\ LocalRun
    /\ pc = "in_engine"
    /\ trace[1].st = STOPPED
    /\ backend.status.state = RUNNING

\* run() has ended on a local-execution Run that the initial refresh found
\* BUILT and whose engine was called.
LocalRunFromBuiltEnded ==
    /\ LocalRun
    /\ trace[1].st = BUILT
    /\ HasEvent("engine")
    /\ pc = "idle"

\* C4 as stated: a run() on a local Run in BUILT that returned has persisted
\* COMPLETED, and one that re-raised the engine's exception has persisted
\* ERROR.
C4_Original ==
    LocalRunFromBuiltEnded =>
        /\ result.outcome = "ok" => backend.status.state = COMPLETED
        /\ result.outcome = "EngineError" => backend.status.state = ERROR

\* C4 amended: a run() on a local Run in BUILT that returned has persisted the
\* state carried by the status Runtime.run returned, or RUNNING when that
\* status carries no state; one that re-raised the engine's exception has
\* persisted ERROR.
C4_FinalStateIsEngineState ==
    LocalRunFromBuiltEnded =>
        /\ result.outcome = "ok" =>
              /\ backend.status.state =
                     IF "state" \in DOMAIN ret THEN ret["state"] ELSE RUNNING
              /\ status.state = backend.status.state
        /\ result.outcome = "EngineError" =>
              /\ backend.status.state = ERROR
              /\ status.state = ERROR

\* C4 witness: the engine returned a status without a state and run()
\* returned with RUNNING persisted.
C4_Witness ==
    /\ LocalRunFromBuiltEnded
    /\ result.outcome = "ok"
    /\ "state" \notin DOMAIN ret
    /\ backend.status.state = RUNNING

\* Runtime.run raised in the current or last run().
EngineRaised == result.op = "run" /\ exc # None

\* The last successful refresh recorded in the trace.
LastRefresh ==
    LET I == {i \in DOMAIN trace : trace[i].ev = "refresh"}
    IN  trace[CHOOSE i \in I : \A j \in I : j <= i]

\* C5: after Runtime.run raised, run() never returns normally; the refresh is
\* the next request; once refreshed the message is the exception text, the
\* state is ERROR for a local Run and the refreshed state otherwise, and the
\* save is next; once saved the same exception is raised with that status
\* persisted.  The only other way out is the error of a refresh or save
\* request that itself failed.
C5_EngineFailureReraised ==
    EngineRaised =>
        /\ result.outcome # "ok"
        /\ pc \in {"err_refresh", "err_save", "idle"}
        /\ pc = "idle" => result.outcome \in {"EngineError", "TransportError"}
        /\ (pc = "err_save" \/ result.outcome = "EngineError") =>
              /\ status.message = exc
              /\ status.state =
                     IF spec.local_execution THEN ERROR ELSE LastRefresh.st
              /\ trace[Len(trace) - (IF pc = "idle" THEN 1 ELSE 0)].ev
                     = "refresh"
        /\ result.outcome = "EngineError" =>
              /\ result.exc = exc
              /\ trace[Len(trace)] = Event("save", status.state)
              /\ backend.status.message = exc
              /\ spec.local_execution => backend.status.state = ERROR
        /\ result.outcome = "TransportError" =>
              trace[Len(trace)].ev \in {"refresh failed", "save failed"}

\* C5 witness: the engine of a remote Run raised and run() re-raised it after
\* persisting the message.
C5_Witness ==
    /\ EngineRaised
    /\ pc = "idle"
    /\ ~ spec.local_execution
    /\ result.outcome = "EngineError"
    /\ result.exc = "out of memory"
    /\ backend.status.message = "out of memory"

\* The current or last operation is run() on a Run that is not executed
\* locally and whose initial refresh succeeded.
RemoteRun ==
    /\ result.op = "run"
    /\ ~ spec.local_execution
    /\ trace # <<>>
    /\ trace[1].ev = "refresh"

\* C6: for a Run that is not local-execution, the in-memory state during
\* run() is always the state read by the latest refresh, whatever state the
\* engine returned, so run() never sets RUNNING or ERROR itself; every save
\* carries the state of the refresh just before it, which follows the engine
\* call or the failed Runtime lookup, and on success that is the refresh made
\* after the engine call.
C6_RemoteStateNotForced ==
    RemoteRun =>
        /\ status.state = LastRefresh.st
        /\ \A i \in DOMAIN trace :
              trace[i].ev = "save" =>
                  /\ i > 2
                  /\ trace[i - 1] = Event("refresh", trace[i].st)
                  /\ trace[i - 2].ev \in {"engine", "runtime failed"}
        /\ result.outcome = "ok" =>
              /\ Len(trace) = 4
              /\ trace[4] = Event("save", trace[3].st)

\* C6 witness: the engine returned COMPLETED, the refresh after the call read
\* RUNNING, and run() persisted RUNNING.
C6_Witness ==
    /\ RemoteRun
    /\ result.outcome = "ok"
    /\ "state" \in DOMAIN ret
    /\ ret["state"] = COMPLETED
    /\ trace[3] = Event("refresh", RUNNING)
    /\ trace[4] = Event("save", RUNNING)
    /\ backend.status.state = RUNNING

\* The step that is the successful final save of run() on a remote Run.
RemoteFinalSave ==
    /\ pc = "ok_save"
    /\ ~ spec.local_execution
    /\ result'.outcome = "ok"

\* C7 as stated: the final save of run() on a remote Run never changes the
\* state the backend holds, so the updater's last write survives it.
C7_Original ==
    [][RemoteFinalSave => backend'.status.state = backend.status.state]_vars

\* C7 amended: the final save of run() on a remote Run writes the state read
\* by the refresh made after the engine call; the updater's last write
\* survives when it landed before that refresh, and an update that lands
\* between that refresh and the save is overwritten.
C7_FinalSaveWritesRefreshedState ==
    [][RemoteFinalSave =>
          /\ Len(trace) = 3
          /\ trace[2].ev = "engine"
          /\ trace[3].ev = "refresh"
          /\ backend'.status.state = trace[3].st
          /\ backend.status.state = trace[3].st
                 => backend'.status.state = backend.status.state]_vars

\* C7 witness: run() returned on a remote Run with the state of its refresh
\* persisted although the updater had last written another one.
C7_Witness ==
    /\ RemoteRun
    /\ pc = "idle"
    /\ result.outcome = "ok"
    /\ lastUpdate = COMPLETED
    /\ trace[3] = Event("refresh", RUNNING)
    /\ backend.status.state = RUNNING

FinalStates == {STOPPED, ERROR, COMPLETED}

AllBefore(sq, n, S) == \A i \in DOMAIN sq : i < n => sq[i] \in S

\* C8: wait() is still polling only while every refreshed state was outside
\* {STOPPED, ERROR, COMPLETED}; it returns at the first poll that reads a
\* state inside, with that state in memory; a backend answering RUNNING then
\* COMPLETED makes it return COMPLETED after exactly 2 polls.
C8_WaitReturnsAtFirstFinalState ==
    result.op = "wait" =>
        /\ polls < MaxPolls => polls = Len(seen)
        /\ pc = "wait" => AllBefore(seen, Len(seen) + 1, States \ FinalStates)
        /\ result.outcome = "ok" =>
              /\ pc = "idle"
              /\ seen # <<>>
              /\ seen[Len(seen)] \in FinalStates
              /\ status.state = seen[Len(seen)]
              /\ AllBefore(seen, Len(seen), States \ FinalStates)
        /\ seen = <<RUNNING, COMPLETED>> =>
              /\ polls = 2
              /\ result.outcome = "ok"
              /\ status.state = COMPLETED

\* C8 witness: the backend answered RUNNING, then COMPLETED, and wait()
\* returned at the second poll.
C8_Witness ==
    /\ result.op = "wait"
    /\ result.outcome = "ok"
    /\ seen = <<RUNNING, COMPLETED>>
    /\ polls = 2
    /\ status.state = COMPLETED

Waiting == pc = "wait"
WaitReturned == result.op = "wait" /\ result.outcome = "ok"
WaitFailed == result.op = "wait" /\ result.outcome = "TransportError"
BackendFinal == backend.status.state \in FinalStates

\* C9: wait() has no bound of its own.  If the backend state is eventually
\* final for good, a running wait() eventually returns (a refresh request
\* that fails is the only other way out); if the backend state is never
\* final, wait() never returns; and wait() raises nothing but the error of a
\* failed refresh.
C9_WaitHasNoBound ==
    /\ (<>[]BackendFinal) => (Waiting ~> (WaitReturned \/ WaitFailed))
    /\ ([]~BackendFinal) => []~WaitReturned
    /\ [](result.op = "wait" =>
             result.outcome \in {"pending", "ok", "TransportError"})

\* C9 witness: wait() is still polling after MaxPolls refreshes that read a
\* state that is not final.
C9_Witness ==
    /\ Waiting
    /\ polls = MaxPolls
    /\ ~ BackendFinal
    /\ AllBefore(seen, Len(seen) + 1, States \ FinalStates)

\* C10: the step that ends a successful build() leaves BUILT in memory and
\* in the backend, whatever the state was when build() was called.
C10_BuildEndsInBuilt ==
    [][(result'.op = "build" /\ result'.outcome = "ok" /\ pc = "build_save")
          => /\ status'.state = BUILT
             /\ backend'.status.state = BUILT
             /\ backend'.spec = spec'
             /\ prior' \in States]_vars

\* C10 witness: a build() called on a Run in ERROR returned, BUILT persisted.
C10_Witness ==
    /\ result.op = "build"
    /\ result.outcome = "ok"
    /\ prior = ERROR
    /\ status.state = BUILT
    /\ backend.status.state = BUILT

\* C13: stop() and resume() on a local-execution Run send nothing to the
\* processor and return None; on any other Run each call sends exactly one
\* request, stop_run for stop() and resume_run for resume(), with the Run's
\* project, entity type and id.
C13_StopResumeSignals ==
    result.op \in {"stop", "resume"} =>
        IF spec.local_execution
        THEN /\ signals = <<>>
             /\ result.outcome = "ok"
             /\ result.value = None
        ELSE /\ Len(signals) = 1
             /\ signals[1].req = (IF result.op = "stop" THEN "stop_run"
                                                      ELSE "resume_run")
             /\ signals[1].project = project
             /\ signals[1].entity_type = ENTITY_TYPE
             /\ signals[1].id = id
             /\ result.outcome = "ok" => result.value = Response

\* C13 witness: resume() of a remote Run that the engine had stopped sent its
\* one resume_run request.
C13_Witness ==
    /\ result.op = "resume"
    /\ result.outcome = "ok"
    /\ ~ spec.local_execution
    /\ backend.status.state = STOPPED
    /\ Len(signals) = 1
    /\ signals[1].req = "resume_run"

\* The edges of the Run state machine.
Edges ==
    {<<CREATED, BUILT>>, <<BUILT, RUNNING>>, <<STOPPED, RUNNING>>,
     <<RUNNING, COMPLETED>>, <<RUNNING, ERROR>>, <<RUNNING, STOPPED>>}

\* A step of a Run operation (not of the engine's updater) that changes the
\* persisted state.
OperationChangesState ==
    /\ trace' # trace
    /\ backend'.status.state # backend.status.state

\* C11 as stated, for a local-execution Run (which no engine updater
\* writes): every change of the state made by a Run operation is an edge of
\* the state machine.
C11_Original ==
    [][(OperationChangesState /\ spec.local_execution) =>
          <<backend.status.state, backend'.status.state>> \in Edges]_vars

\* C11 amended: the only changes of the persisted state made by Run
\* operations are: build() writes BUILT over any state; run() on a local Run
\* writes RUNNING over BUILT or STOPPED, ERROR over RUNNING when the engine
\* raised, and over RUNNING the state of the engine's returned status; run()
\* on a remote Run writes back the state its latest refresh read.
C11_StateChangesOfOperations ==
    [][OperationChangesState =>
          LET old == backend.status.state
              new == backend'.status.state
          IN  \/ pc = "build_save" /\ new = BUILT
              \/ /\ spec.local_execution
                 /\ \/ pc = "run_save" /\ old \in {BUILT, STOPPED}
                                       /\ new = RUNNING
                    \/ pc = "err_save" /\ old = RUNNING /\ new = ERROR
                    \/ pc = "ok_save" /\ old = RUNNING
                                      /\ "state" \in DOMAIN ret
                                      /\ new = ret["state"]
              \/ /\ ~ spec.local_execution
                 /\ pc \in {"err_save", "ok_save"}
                 /\ trace[Len(trace)] = Event("refresh", new)]_vars

\* C11 witness: build() was called on a COMPLETED local Run and wrote BUILT.
C11_Witness ==
    /\ result.op = "build"
    /\ result.outcome = "ok"
    /\ spec.local_execution
    /\ prior = COMPLETED
    /\ trace[Len(trace)] = Event("save", BUILT)
    /\ backend.status.state = BUILT

\* build_status was applied to a registered module.
StatusBuilt ==
    /\ input.fn = "build_status"
    /\ input.module \in RegisteredModules
    /\ output # NoOutput

\* C12 as stated: the state of a status is always a member of the
\* enumeration, and status construction accepts each of the six states the
\* Run state machine uses.
C12_Claim ==
    /\ status.state \in StateMembers
    /\ (StatusBuilt /\ Get(input.kwargs, "state") \in States) =>
          /\ output.outcome = "ok"
          /\ output.value.state = input.kwargs["state"]

\* C14: for a registered module, build_status without a state or with state
\* None gives a status whose state is CREATED; with a state that is a member
\* of State it gives a status with that state; with any other state it raises
\* ValueError and gives no status.
C14_StatusDefaultsAndValidates ==
    StatusBuilt =>
        LET state == Get(input.kwargs, "state")
        IN  IF state = None
            THEN output.outcome = "ok" /\ output.value.state = CREATED
            ELSE IF state \in {"BUILT", "COMPLETED", "CREATED", "ERROR",
                               "IDLE", "PENDING", "READY", "RUNNING", "STOP"}
            THEN output.outcome = "ok" /\ output.value.state = state
            ELSE output.outcome = "ValueError"

\* C14 witness: a status asked for with a lower-case state was refused.
C14_Witness ==
    /\ StatusBuilt
    /\ Get(input.kwargs, "state") = "running"
    /\ output.outcome = "ValueError"

\* C15 as stated: a Run rebuilt from its own to_dict() has the same project,
\* uuid, kind, spec and status.
C15_Claim ==
    (input.fn = "round_trip" /\ output # NoOutput) =>
        /\ output.outcome = "ok"
        /\ output.value.project = input.run.project
        /\ output.value.id = input.run.id
        /\ output.value.kind = input.run.kind
        /\ output.value.spec = input.run.spec
        /\ output.value.status = input.run.status

\* The executable type a Run's kind stands for.
TypeOfKind(kind) == get_entity_type_from_kind(get_executable_kind(kind))

\* C16: when the last "/"-separated segment of spec.task is name:id, the
\* executable is read with that name and that id, in the Run's project and
\* with the entity type of the Run's kind.
C16_ExecutableReferenceParsed ==
    (input.fn = "_get_executable" /\ output # NoOutput) =>
        \A i \in 0..Len(input.task) : \A j \in (i + 1)..Len(input.task) :
            ( /\ i = 0 \/ input.task[i] = "/"
              /\ input.task[j] = ":"
              /\ \A k \in (i + 1)..Len(input.task) :
                    k # j => input.task[k] \notin {"/", ":"} )
            => output = [outcome |-> "ok",
                         value |-> [name |-> SubSeq(input.task, i + 1, j - 1),
                                    entity_id |-> SubSeq(input.task, j + 1,
                                                         Len(input.task)),
                                    project |-> input.project,
                                    entity_type |-> TypeOfKind(input.kind)]]

\* C16 witness: "job://proj/job/myfunc:abc123" was resolved to myfunc and
\* abc123.
C16_Witness ==
    /\ input.fn = "_get_executable"
    /\ input.task = ExampleTask
    /\ input.kind = "kfp+run"
    /\ output.outcome = "ok"
    /\ output.value.name = <<"myfunc">>
    /\ output.value.entity_id = <<"abc123">>
    /\ output.value.entity_type = "workflows"

\* Where "://" occurs in a string.
SeparatorAt(s) ==
    {i \in 1..(Len(s) - 2) : SubSeq(s, i, i + 2) = <<":", "/", "/">>}

\* The reference rebuilt from a task string with one "://": the executable
\* kind, "://", and what follows "://".
Reference(kind, s) ==
    LET i == CHOOSE j \in SeparatorAt(s) : TRUE
    IN  <<get_executable_kind(kind)>> \o <<":", "/", "/">>
            \o SubSeq(s, i + 3, Len(s))

\* The task kind named by a task string with one "://".
TaskKind(s) == SubSeq(s, 1, (CHOOSE j \in SeparatorAt(s) : TRUE) - 1)

\* C17 as stated: in remote mode an empty result list ends in EntityError.
C17_Claim ==
    ( /\ input.fn = "_get_task"
      /\ ~ input.local
      /\ output # NoOutput
      /\ Cardinality(SeparatorAt(input.task)) = 1
      /\ \A n \in 1..Len(input.tasks) :
            ~ ( /\ input.tasks[n].spec.function
                      = Reference(input.kind, input.task)
                /\ input.tasks[n].kind = TaskKind(input.task) ) )
    => output.outcome = "EntityError"

\* C18: in local mode the first listed Task whose spec.function is the
\* rebuilt reference is returned, and EntityError "Task not found." is
\* raised exactly when no listed Task has it.
C18_LocalTaskLookup ==
    ( /\ input.fn = "_get_task"
      /\ input.local
      /\ output # NoOutput
      /\ Cardinality(SeparatorAt(input.task)) = 1 )
    => LET ref == Reference(input.kind, input.task)
           hits == {n \in 1..Len(input.tasks) :
                       input.tasks[n].spec.function = ref}
       IN  /\ hits = {}
              => output = [outcome |-> "EntityError",
                           value |-> "Task not found."]
           /\ hits # {}
              => /\ output.outcome = "ok"
                 /\ output.value.name \in hits
                 /\ \A n \in hits : output.value.name <= n
                 /\ output.value = input.tasks[output.value.name]

\* C18 witness: two listed Tasks match and the first one was returned.
C18_Witness ==
    /\ input.fn = "_get_task"
    /\ input.local
    /\ Cardinality(SeparatorAt(input.task)) = 1
    /\ Len(input.tasks) = 2
    /\ input.tasks[1].spec.function = Reference(input.kind, input.task)
    /\ input.tasks[2].spec.function = Reference(input.kind, input.task)
    /\ input.tasks[1].kind # input.tasks[2].kind
    /\ output.outcome = "ok"
    /\ output.value.name = 1

CallsOf(req) == {i \in 1..Len(output.calls) : output.calls[i].req = req}

\* What holds all along a call of delete_project.
DeleteProjectSafe ==
    /\ output.outcome \in {"running", "ok"}
    /\ output.outcome = "running" =>
          /\ output.context
          /\ CallsOf("delete_context") = {}
    /\ output.outcome = "ok" =>
          /\ ~ output.context
          /\ CallsOf("delete_context") = {Len(output.calls)}
          /\ output.calls[Len(output.calls)].dto = input.name
          /\ Len(output.calls) >= 2
          /\ output.calls[Len(output.calls) - 1].dto = "PROJ"
          /\ \A i \in 1..(Len(output.calls) - 2) :
                /\ output.calls[i].dto # "PROJ"
                /\ input.delete_all
          /\ output.responses
                = Cardinality({i \in CallsOf("delete") : output.calls[i].ok})

\* C20: whatever the backend answers, delete_project lets no failure out,
\* attempts the project delete after every entity read and delete, ends
\* with delete_context(name), and returns.
C20_DeleteProjectAlwaysCleans ==
    [] DeleteProjectSafe /\ <> (output.outcome = "ok")

\* C20 witness: with delete_all a read failed, an object delete failed and
\* the project delete failed, and the call returned with the context
\* removed.
C20_Witness ==
    /\ input.fn = "delete_project"
    /\ input.delete_all
    /\ output.outcome = "ok"
    /\ ~ output.context
    /\ \E i \in CallsOf("read") : ~ output.calls[i].ok
    /\ \E i \in CallsOf("delete") :
          output.calls[i].dto # "PROJ" /\ ~ output.calls[i].ok
    /\ \E i \in CallsOf("delete") :
          output.calls[i].dto = "PROJ" /\ ~ output.calls[i].ok

\* C21 as stated: every call of as_df that downloaded to a temporary folder
\* deleted that folder, also when reading the dataframe failed; on a local
\* path nothing is downloaded and nothing is deleted.
C21_Claim ==
    (input.fn = "as_df" /\ output # NoOutput) =>
        /\ output.downloaded => output.cleaned
        /\ input.scheme = "local" => ~ output.downloaded /\ ~ output.cleaned

\* C22: step raises RuntimeError before any lookup when neither a function
\* nor a workflow is given, raises RuntimeError when the one named is not
\* found, gives a workflow step without action the action "pipeline", and
\* every step it returns declares the run_id file output.
C22_StepRequiresExecutable ==
    (input.fn = "step" /\ output # NoOutput) =>
        /\ (input.function = None /\ input.workflow = None)
              => output.outcome = "RuntimeError" /\ output.lookups = 0
        /\ ((input.function # None \/ input.workflow # None) /\ ~ input.found)
              => output.outcome = "RuntimeError" /\ output.lookups = 1
        /\ (output.outcome = "ok" /\ input.function = None
                /\ input.action = None)
              => output.value.action = "pipeline"
        /\ output.outcome = "ok"
              => <<"run_id">> \in DOMAIN output.value.file_outputs

\* C22 witness: a workflow step without action was returned with the action
\* "pipeline" and the run_id output beside its own.
C22_Witness ==
    /\ input.fn = "step"
    /\ input.function = None
    /\ input.workflow = "w"
    /\ input.action = None
    /\ input.outputs = [o \in {"o"} |-> <<"a", ".", "b">>]
    /\ output.outcome = "ok"
    /\ output.value.action = "pipeline"
    /\ DOMAIN output.value.file_outputs = {<<"run_id">>, <<"a", "_", "b">>}

\* C23: save(), refresh() and delete() of a Run whose local flag is true
\* raise EntityError, send no request and leave the Run as it was.
C23_LocalRunNeverContactsBackend ==
    (input.fn = "Run" /\ input.local /\ output # NoOutput) =>
        /\ output.outcome = "EntityError"
        /\ output.requests = <<>>
        /\ output.run = input.run

\* C23 witness: refresh() and the like were called on a local Run while the
\* backend would have failed.
C23_Witness ==
    /\ input.fn = "Run"
    /\ input.local
    /\ input.method = "delete"
    /\ ~ input.response.ok
    /\ output.outcome = "EntityError"

\* C24: save() of a non-local Run sends one create request whose payload is
\* the Run's mapping without status, keeps the status in memory, and takes
\* the id of the response when the response has one.
C24_SaveCreatesWithoutStatus ==
    (input.fn = "Run" /\ input.method = "save" /\ ~ input.local
        /\ output # NoOutput) =>
        /\ Len(output.requests) = 1
        /\ output.requests[1].method = "create"
        /\ DOMAIN output.requests[1].payload
              = {"project", "kind", "id", "task_id", "task", "spec"}
        /\ \A k \in DOMAIN output.requests[1].payload :
              output.requests[1].payload[k] = input.run[k]
        /\ output.run.status = input.run.status
        /\ output.run.id =
              IF input.response.ok /\ "id" \in DOMAIN input.response.body
              THEN input.response.body["id"] ELSE input.run.id
        /\ \A k \in DOMAIN input.run : k # "id" => output.run[k] = input.run[k]

\* C24 witness: a Run with a status was saved and took the backend's id.
C24_Witness ==
    /\ input.fn = "Run"
    /\ input.method = "save"
    /\ ~ input.local
    /\ input.run.status = [state |-> COMPLETED]
    /\ input.run.id = "run-1"
    /\ output.outcome = "ok"
    /\ output.run.id = "run-9"
    /\ output.run.status = [state |-> COMPLETED]

\* C25: when the save of build() fails, the Run keeps the rebuilt spec and
\* the state BUILT in memory and the backend keeps what it held.
C25_BuildDoesNotRollBack ==
    [][(pc = "build_save" /\ result'.op = "build"
            /\ result'.outcome = "TransportError")
          => /\ status'.state = BUILT
             /\ spec'.tag \in BuildPatches
             /\ status' = status
             /\ spec' = spec
             /\ backend' = backend]_vars

\* C25 witness: build() failed at its save; memory has BUILT and the rebuilt
\* spec, the backend has CREATED and the initial spec.
C25_Witness ==
    /\ result.op = "build"
    /\ result.outcome = "TransportError"
    /\ status.state = BUILT
    /\ spec.tag \in BuildPatches
    /\ backend.status.state = CREATED
    /\ backend.spec.tag = InitialSpec

\* A step that no operation of the Run takes: only the backend changes.
UpdaterStep ==
    UNCHANGED <<status, spec, pc, exc, ret, result, prior, trace, polls, slept, seen,
                signals>>

\* C26: build() resolves the executable, then the Task, then calls
\* Runtime.build; when the executable or the Task cannot be resolved the
\* error leaves build() with no Runtime call, no save, and spec, state and
\* backend as they were.
C26_BuildResolvesInOrder ==
    [][(pc = "idle" /\ result'.op = "build" /\ ~ UpdaterStep) =>
          /\ trace'[1].ev \in {"executable", "executable failed"}
          /\ \A i \in DOMAIN trace' :
                /\ trace'[i].ev \in {"task", "task failed"}
                      => i = 2 /\ trace'[1].ev = "executable"
                /\ trace'[i].ev \in {"build", "build failed"}
                      => i = 3 /\ trace'[2].ev = "task"
          /\ (\E i \in DOMAIN trace' :
                  trace'[i].ev \in {"executable failed", "task failed"})
                => /\ pc' = "idle"
                   /\ result'.outcome \notin {"ok", "pending"}
                   /\ \A i \in DOMAIN trace' :
                         trace'[i].ev \notin {"build", "build failed", "save",
                                              "save failed"}
                   /\ status' = status
                   /\ spec' = spec
                   /\ backend' = backend]_vars

\* C26 witness: build() on a Run in ERROR ended at the Task lookup, after
\* the executable was resolved, and the Run is still in ERROR.
C26_Witness ==
    /\ result.op = "build"
    /\ result.outcome = "LookupError"
    /\ trace = <<Event("executable", None), Event("task failed", None)>>
    /\ prior = ERROR
    /\ status.state = ERROR

\* C27: on the success path of run() the status is rebuilt from the status
\* the refresh after the engine call read, with every field of the engine's
\* status laid over it, except the state when the Run is not executed
\* locally; and that status is what the final save persists.
C27_PersistedStatusIsMerge ==
    [][/\ (pc = "ok_refresh" /\ pc' = "ok_save") =>
             \A k \in StatusKeys :
                 status'[k] =
                     IF k \in DOMAIN ret
                        /\ (k # "state" \/ backend.spec.local_execution)
                     THEN ret[k] ELSE backend.status[k]
       /\ (pc = "ok_save" /\ result'.outcome = "ok") =>
             /\ status' = status
             /\ backend'.status = status]_vars

\* C27 witness: run() returned on a remote Run whose engine gave COMPLETED
\* and outputs; the persisted status has the engine's outputs, and the state
\* and the message of the refresh.
C27_Witness ==
    /\ result.op = "run"
    /\ result.outcome = "ok"
    /\ ~ spec.local_execution
    /\ ret = [state |-> COMPLETED, outputs |-> "o1"]
    /\ backend.status
          = [state |-> RUNNING, message |-> "engine failed", outputs |-> "o1"]

\* C28: run() on a local-execution Run decides on the state the refresh at
\* its start reads from the backend, whatever state the Run held in memory:
\* BUILT or STOPPED in the backend goes on to RUNNING, any other state is
\* rejected with the refreshed status in memory.
C28_ReadinessOnRefreshedState ==
    [][(pc = "idle" /\ result'.op = "run" /\ ~ UpdaterStep
            /\ backend.spec.local_execution /\ trace'[1].ev = "refresh") =>
          /\ trace'[1].st = backend.status.state
          /\ IF backend.status.state \in {BUILT, STOPPED}
             THEN /\ pc' = "run_save"
                  /\ status'.state = RUNNING
             ELSE /\ pc' = "idle"
                  /\ result'.outcome = "EntityError"
                  /\ status' = backend.status]_vars

\* C28 witness: a Run that was BUILT in memory and COMPLETED in the backend
\* was rejected by run().
C28_Witness ==
    /\ LocalRun
    /\ result.outcome = "EntityError"
    /\ prior = BUILT
    /\ trace = <<Event("refresh", COMPLETED)>>
    /\ status.state = COMPLETED

\* C29: when the refresh or the save that follows an engine failure fails
\* itself, that failure is what run() raises, nothing is written, and the
\* backend of a local-execution Run still holds RUNNING.
C29_ErrorPathNotGuarded ==
    [][(pc \in {"err_refresh", "err_save"}
            /\ trace'[Len(trace')].ev \in {"refresh failed", "save failed"}) =>
          /\ pc' = "idle"
          /\ result'.outcome = "TransportError"
          /\ result'.exc # exc
          /\ backend' = backend
          /\ spec.local_execution => backend'.status.state = RUNNING]_vars

\* C29 witness: the engine of a local-execution Run raised, the save of
\* ERROR failed, and run() ended with that failure: ERROR in memory, RUNNING
\* in the backend.
C29_Witness ==
    /\ LocalRun
    /\ exc # None
    /\ result.outcome = "TransportError"
    /\ trace[Len(trace)] = Event("save failed", ERROR)
    /\ status.state = ERROR
    /\ backend.status.state = RUNNING

\* C30: a Runtime lookup that fails in run() is made once and the Runtime
\* is never invoked; its error is handled as an engine failure is: for a
\* local-execution Run it comes after the save of RUNNING, and when run()
\* raises it ERROR and the error text as message are persisted.
C30_RuntimeLookupFailure ==
    (result.op = "run" /\ HasEvent("runtime failed")) =>
        /\ Cardinality({i \in DOMAIN trace :
                           trace[i].ev \in {"runtime failed", "engine"}}) = 1
        /\ exc = "no runtime"
        /\ pc \in {"err_refresh", "err_save", "idle"}
        /\ pc = "idle" => result.outcome \in {"EngineError", "TransportError"}
        /\ spec.local_execution =>
              /\ trace[2] = Event("save", RUNNING)
              /\ trace[3] = Event("runtime failed", RUNNING)
        /\ result.outcome = "EngineError" =>
              /\ result.exc = "no runtime"
              /\ backend.status.message = "no runtime"
              /\ status.message = "no runtime"
              /\ spec.local_execution =>
                    /\ backend.status.state = ERROR
                    /\ status.state = ERROR

\* C30 witness: run() on a local-execution Run found no Runtime and raised
\* that error with ERROR and its text persisted.
C30_Witness ==
    /\ LocalRun
    /\ HasEvent("runtime failed")
    /\ pc = "idle"
    /\ result.outcome = "EngineError"
    /\ backend.status = [state |-> ERROR, message |-> "no runtime",
                         outputs |-> None]

\* C31: logs(), stop() and resume() are pass-throughs: a call of one of them
\* leaves the in-memory status and spec and the backend record as they were,
\* makes no refresh or save, and returns in the same step, so stop() does not
\* wait for STOPPED; logs() asks the processor for a local-execution Run as
\* well, while stop() and resume() ask it only for a Run that is not.
C31_PassThroughs ==
    [][(pc = "idle" /\ result'.op \in {"logs", "stop", "resume"}
            /\ ~ UpdaterStep) =>
          /\ status' = status
          /\ spec' = spec
          /\ backend' = backend
          /\ trace' = <<>>
          /\ pc' = "idle"
          /\ result'.op = "logs" =>
                signals' = <<Signal("read_run_logs", project, ENTITY_TYPE, id)>>
          /\ result'.op = "stop" =>
                signals' = IF spec.local_execution THEN <<>>
                           ELSE <<Signal("stop_run", project, ENTITY_TYPE, id)>>
          /\ result'.op = "resume" =>
                signals' = IF spec.local_execution THEN <<>>
                           ELSE <<Signal("resume_run", project, ENTITY_TYPE, id)>>
      ]_vars

\* C31 witness: logs() of a local-execution Run that is RUNNING in the backend
\* was answered by the processor.
C31_Witness ==
    /\ pc = "idle"
    /\ result.op = "logs"
    /\ result.outcome = "ok"
    /\ result.value = Response
    /\ spec.local_execution
    /\ backend.status.state = RUNNING
    /\ signals = <<Signal("read_run_logs", project, ENTITY_TYPE, id)>>

\* C32: every poll of wait() whose refresh is answered reads the backend
\* record, sleeps 5 units and then tests the state it read: the poll returns
\* exactly when that state is STOPPED, ERROR or COMPLETED; a wait() has slept
\* 5 units per poll, and a wait() that returned has made at least one refresh
\* and one sleep, also when the Run was final when it was called.
C32_PollIsRefreshSleepCheck ==
    /\ [] (result.op = "wait" =>
              /\ slept = 5 * polls
              /\ (pc = "idle" /\ result.outcome = "ok") =>
                    /\ polls >= 1
                    /\ slept >= 5
                    /\ status.state \in {STOPPED, ERROR, COMPLETED}
                    /\ seen[Len(seen)] = status.state)
    /\ [][(pc = "wait" /\ ~ UpdaterStep
             /\ result'.outcome # "TransportError") =>
            /\ status' = backend.status
            /\ polls < MaxPolls =>
                  /\ polls' = polls + 1
                  /\ slept' = slept + 5
            /\ (pc' = "idle") <=>
                  (backend.status.state \in {STOPPED, ERROR, COMPLETED})
            /\ pc' # "idle" => pc' = "wait"
         ]_vars

\* C32 witness: wait() was called on a Run that was already COMPLETED and
\* returned after one refresh and one sleep of 5 units.
C32_Witness ==
    /\ pc = "idle"
    /\ result.op = "wait"
    /\ result.outcome = "ok"
    /\ prior = COMPLETED
    /\ seen = <<COMPLETED>>
    /\ polls = 1
    /\ slept = 5

\* The current run() has persisted RUNNING for a local-execution Run.
SavedRunning ==
    /\ result.op = "run"
    /\ spec.local_execution
    /\ Len(trace) >= 2
    /\ trace[2] = Event("save", RUNNING)

\* C33: once run() has persisted RUNNING for a local-execution Run, every
\* failure of that call leaves ERROR in the backend, never RUNNING.
C33_Claim ==
    (SavedRunning /\ pc = "idle" /\ result.outcome # "ok") =>
        /\ backend.status.state = ERROR
        /\ backend.status.state # RUNNING

\* C34: of two clients that call run() on the same local-execution Run in
\* state BUILT, at most one passes the readiness test on BUILT and invokes
\* the Runtime.
C34_Claim ==
    input.fn = "run" =>
        Cardinality({c \in output.invoked : output.read[c] = BUILT}) <= 1

\* C35 as stated: whenever the backend state is STOPPED, ERROR or COMPLETED
\* at some moment while wait() is polling, wait() eventually returns (or its
\* refresh fails), whatever the state does afterwards.
C35_Original ==
    (Waiting /\ BackendFinal) ~> (WaitReturned \/ WaitFailed)

\* C35: a poll of wait() that reads STOPPED, ERROR or COMPLETED returns, and a
\* poll that reads any other state goes on polling, whatever the state was
\* between the polls; so a wait() that finds the backend final eventually
\* returns (or its refresh fails) unless the state leaves the final states
\* again, as when a stopped Run is resumed before the next poll.
C35_WaitReturnsOnObservedFinalState ==
    /\ (Waiting /\ BackendFinal) ~>
           (WaitReturned \/ WaitFailed \/ ~ BackendFinal)
    /\ [][(Waiting /\ ~ UpdaterStep /\ result'.outcome # "TransportError") =>
            IF BackendFinal
            THEN /\ pc' = "idle"
                 /\ result'.outcome = "ok"
                 /\ status'.state = backend.status.state
            ELSE /\ pc' = "wait"
                 /\ result'.outcome = "pending"
         ]_vars

\* C35 witness: wait() has polled once and read RUNNING, and the updater has
\* since written STOPPED, which the next poll may or may not still find.
C35_Witness ==
    /\ Waiting
    /\ seen = <<RUNNING>>
    /\ lastUpdate = STOPPED
    /\ backend.status.state = STOPPED

\* C37: step called with both function and workflow, the function found and
\* every output a plain name, returns its ContainerOp, with the action as
\* given, and raises nothing.
C37_Claim ==
    (/\ input.fn = "step"
     /\ output # NoOutput
     /\ input.function # None
     /\ input.workflow # None
     /\ input.found
     /\ \A p \in DOMAIN input.outputs : input.outputs[p] # PipelineParam) =>
        /\ output.outcome = "ok"
        /\ output.value.action = input.action

\* C36: after the construction of a Dataitem and any sequence of save calls,
\* spec.key is store://<project>/dataitems/<kind>/<name>:<id> for the id the
\* Dataitem has now: save() creates and keeps id and key, save(uuid) updates
\* under uuid and leaves the key naming uuid.
C36_Claim ==
    (input.fn = "Dataitem" /\ output # NoOutput) =>
        /\ output.item.key = <<"store://", output.item.project, "/dataitems/",
                               output.item.kind, "/", output.item.name, ":",
                               output.item.id>>
        /\ \A i \in DOMAIN output.requests :
              output.requests[i].method =
                  IF input.saves[i] = None THEN "create" ELSE "update"

====
